---- MODULE Spec2Model ----
(***************************************************************************)
(* A model of backend/server.py, the API of the music academy: the        *)
(* session gate, the payment-request workflow, the payment automations    *)
(* and the teacher compensation calculation.                              *)
(*                                                                         *)
(* Every MongoDB collection is a sequence of documents in insertion       *)
(* order (the order find_one and to_list read them in); a document is a   *)
(* record whose DOMAIN is the set of keys it carries, so that dict.get    *)
(* and $set behave as they do on the stored documents.  A datetime is a   *)
(* number of seconds since 2025-07-01T00:00:00; an optional value is a    *)
(* sequence of length 0 (None) or 1.  A text that is searched with        *)
(* $regex is a sequence of words, and a pattern matches it when one of    *)
(* its words is the pattern.                                               *)
(*                                                                         *)
(* datetime.now(timezone.utc) is timezone-aware.  A datetime read from a  *)
(* stored document is aware only when the MongoDB client was created with *)
(* tz_aware, which AsyncIOMotorClient(mongo_url) takes from the URL in    *)
(* the environment (the default is naive); Python raises TypeError on an  *)
(* order comparison of an aware with a naive datetime.                    *)
(*                                                                         *)
(* A handler is one action, except where the interleaving of requests is  *)
(* studied: there the handler is cut at the await of its write (or at     *)
(* every await of its loop), the suspended request waits in in_flight     *)
(* with what it has read, and any request may run before it resumes.      *)
(***************************************************************************)
EXTENDS Integers, Sequences, FiniteSets, TLC

VARIABLES
    tz_aware,             \* the tz_aware option of AsyncIOMotorClient(mongo_url)
    now,                  \* datetime.now(timezone.utc) of the running request
    uuid,                 \* uuid4(): per collection, the number of ids handed out
    utenti,               \* db.utenti
    sessioni,             \* db.sessioni
    pagamenti,            \* db.pagamenti
    richieste_pagamento,  \* db.richieste_pagamento
    notifiche,            \* db.notifiche
    presenze,             \* db.presenze
    compensi,             \* db.compensi
    accesso_amministrazione,  \* db.accesso_amministrazione
    allievi_dettaglio,    \* db.allievi_dettaglio
    insegnanti_dettaglio, \* db.insegnanti_dettaglio
    slot_lezioni,         \* db.slot_lezioni
    in_flight,            \* the requests suspended at an await between their
                          \* reads and their writes, with what they have read
    storia,               \* history: the approvals and the bookings that have
                          \* answered 200 and the PIN steps that succeeded,
                          \* in the order of their answers
    risposta,             \* the request just served and the response to it
    tolleranza_richiesta  \* history: payment id -> the tolleranza_giorni its
                          \* create_payment request carried (the program keeps none)

vars == <<tz_aware, now, uuid, utenti, sessioni, pagamenti, richieste_pagamento,
          notifiche, presenze, compensi, accesso_amministrazione,
          allievi_dettaglio, insegnanti_dettaglio, slot_lezioni, in_flight,
          storia, risposta, tolleranza_richiesta>>

\* the rows kept beside a user: the admin's second factor and the role details
dettagli == <<accesso_amministrazione, allievi_dettaglio, insegnanti_dettaglio>>

db == <<utenti, sessioni, pagamenti, richieste_pagamento, notifiche,
        presenze, compensi, dettagli, slot_lezioni>>

-----------------------------------------------------------------------------
(* Bounds of the model *)

MaxUuid == 4        \* ids handed out by the payment-request routes
MaxPagamenti == 2   \* rows the payment routes let db.pagamenti grow to
MaxPresenze == 3    \* attendance records created
MaxCompensi == 1    \* rows of db.compensi
MaxSessioni == 2    \* sessions opened by login
MaxRegistrate == 2  \* attendance records created before they are revised
MaxSlot == 2        \* lesson slots created
MaxStato == 1       \* payments whose status the callers rewrite
MaxPromemoria == 2  \* notifications sent about a lesson
MaxNotifiche == 2    \* notifications the admin dispatches
MaxInFlight == 2    \* requests suspended at the same time
MaxUtenti == 2      \* users created by create_user
MaxPrenotazioni == 2 \* bookings of lesson slots, in flight or completed
MaxPin == 2         \* PIN steps of the admin that succeed

-----------------------------------------------------------------------------
(* Enums and settings *)

UserRole ==
    [ADMIN |-> "amministratore", TEACHER |-> "insegnante",
     STUDENT |-> "allievo", SECRETARY |-> "segretaria"]

AttendanceStatus ==
    [PRESENT |-> "presente",
     ABSENT_JUSTIFIED |-> "assente_giustificato",
     ABSENT_UNJUSTIFIED |-> "assente_non_giustificato",
     MAKEUP |-> "recupero"]

PaymentStatus ==
    [PENDING |-> "in_attesa", PAID |-> "pagato", OVERDUE |-> "scaduto"]

PaymentType ==
    [MONTHLY |-> "mensile", ANNUAL |-> "annuale",
     TEACHER_COMPENSATION |-> "compenso_insegnante"]

NotificationType ==
    [GENERAL |-> "generale", PAYMENT |-> "pagamento", LESSON |-> "lezione",
     PAYMENT_REQUEST |-> "pagamenti_da_effettuare", EVENT |-> "eventi"]

PaymentRequestStatus ==
    [PENDING |-> "in_attesa", CONFIRMED |-> "confermato",
     APPROVED |-> "approvato", REJECTED |-> "rifiutato"]

ACCESS_TOKEN_EXPIRE_DAYS == 7
PAYMENT_DUE_DAY == 7
PAYMENT_TOLERANCE_DAYS == 0

-----------------------------------------------------------------------------
(* Python and MongoDB primitives *)

None == << >>
Some(v) == <<v>>

\* the collections whose documents carry an id
Collections ==
    {"pagamenti", "richieste_pagamento", "notifiche", "presenze", "compensi",
     "sessioni", "slot_lezioni", "utenti", "allievi_dettaglio",
     "insegnanti_dettaglio"}

\* str(uuid4()) for a document of the collection: the collection and a serial number
uuid4(issued, collection) == <<collection, issued[collection] + 1>>

\* str(uuid4()) for a user: the n-th id handed out to a user
uuid4_utente(n) == "utente." \o ToString(n)

\* the counters after handing out one more id for the collection
Issued(issued, collection) == [issued EXCEPT ![collection] = issued[collection] + 1]

\* the ids the payment-request routes have handed out
IssuedByRequests(issued) ==
    issued["notifiche"] + issued["richieste_pagamento"] + issued["pagamenti"]

\* dict.get(key, default)
Get(d, key, default) == IF key \in DOMAIN d THEN d[key] ELSE default

\* {"$set": update} on one document: keys are overwritten or added
Set(d, update) ==
    [k \in DOMAIN d \cup DOMAIN update |->
        IF k \in DOMAIN update THEN update[k] ELSE d[k]]

\* index of the first document with the given id, 0 when there is none
FindById(coll, id) ==
    LET hits == {i \in 1..Len(coll) : coll[i].id = id}
    IN  IF hits = {} THEN 0 ELSE CHOOSE i \in hits : \A j \in hits : i <= j

\* update_one({"id": id}, {"$set": update})
UpdateOne(coll, id, update) ==
    LET i == FindById(coll, id)
    IN  IF i = 0 THEN coll ELSE [coll EXCEPT ![i] = Set(coll[i], update)]

\* cursor.to_list(n): the first n documents
ToList(docs, n) == IF Len(docs) <= n THEN docs ELSE SubSeq(docs, 1, n)

\* {"field": {"$regex": pattern}}: the pattern occurs in the text
Regex(pattern, text) == \E i \in 1..Len(text) : text[i] = pattern

-----------------------------------------------------------------------------
(* Dates: the calendar of July and August 2025 *)

Mesi == {"2025-07", "2025-08"}

Minute == 60
Hour == 60 * Minute
Day == 24 * Hour

\* days in the months before the given one, counted from 2025-07-01
DaysBefore(mese) == IF mese = "2025-07" THEN 0 ELSE 31

\* datetime.fromisoformat(f"{mese}-{giorno}T{h}:{mi}:{s}")
DateTime(mese, giorno, h, mi, s) ==
    (DaysBefore(mese) + giorno - 1) * Day + h * Hour + mi * Minute + s

\* a date string "YYYY-MM-DD" as the request carries it
IsoDate(mese, giorno) == [mese |-> mese, giorno |-> giorno]

\* datetime.fromisoformat of a date string: midnight of that day
fromisoformat(s) == DateTime(s.mese, s.giorno, 0, 0, 0)

\* t.strftime("%Y-%m")
strftime_Ym(t) == IF t < DateTime("2025-08", 1, 0, 0, 0) THEN "2025-07" ELSE "2025-08"

\* timedelta(days=n)
timedelta_days(n) == n * Day

\* timedelta(minutes=n)
timedelta_minutes(n) == n * Minute

\* a time string "HH:MM" as the request carries it
IsoTime(h, mi) == [h |-> h, mi |-> mi]

\* datetime.fromisoformat(f"{data}T{ora}")
fromisoformat_T(data, ora) == DateTime(data.mese, data.giorno, ora.h, ora.mi, 0)

\* the instants at which requests arrive
Clock ==
    <<DateTime("2025-07", 5, 0, 0, 0),
      DateTime("2025-07", 7, 23, 59, 59),
      DateTime("2025-07", 8, 0, 0, 0)>>

-----------------------------------------------------------------------------
(* Users and sessions *)

Admin1 == "adm1"
Teacher1 == "ins1"
Student1 == "all1"
Student2 == "all2"      \* a student whose account is disabled

NoToken == "no_token"
Tokens == {"tok_adm1", "tok_ins1", "tok_all1", "tok_all2", NoToken}

\* the callers of an admin-only route: an admin, another user, nobody
AdminCallers == {"tok_adm1", "tok_all1", NoToken}

\* get_session_token: the cookie or the bearer token the request carries
get_session_token(token) == IF token = NoToken THEN None ELSE Some(token)

\* "scadenza <= datetime.now(timezone.utc)", tzinfo being set when it is missing
session_expired_after(scadenza) == scadenza < now

session_expired(scadenza) == scadenza <= now

\* get_current_user: the user the token resolves to, or None
get_current_user_any_flag(token) ==
    LET tk == get_session_token(token)
        hits == {i \in 1..Len(sessioni) :
                    tk # None /\ sessioni[i].token_sessione = tk[1]}
        session == sessioni[CHOOSE i \in hits : \A j \in hits : i <= j]
        u == FindById(utenti, session.utente_id)
    IN  IF tk = None THEN None
        ELSE IF hits = {} THEN None
        ELSE IF session_expired(session.data_scadenza) THEN None
        ELSE IF u = 0 THEN None
        ELSE Some(utenti[u])

get_current_user(token) ==
    LET tk == get_session_token(token)
        hits == {i \in 1..Len(sessioni) :
                    tk # None /\ sessioni[i].token_sessione = tk[1]}
        session == sessioni[CHOOSE i \in hits : \A j \in hits : i <= j]
        u == FindById(utenti, session.utente_id)
    IN  IF tk = None THEN None
        ELSE IF hits = {} THEN None
        ELSE IF session_expired(session.data_scadenza) THEN None
        ELSE IF u = 0 \/ ~Get(utenti[u], "attivo", FALSE) THEN None
        ELSE Some(utenti[u])

\* the response of a handler that raises HTTPException(status_code)
Raise(op, request, status_code) ==
    /\ risposta' = [op |-> op, request |-> request, status_code |-> status_code]
    /\ UNCHANGED <<tz_aware, in_flight, storia, now, uuid, db, tolleranza_richiesta>>

\* require_auth: 0 when a user resolves, otherwise the status code raised
require_auth(token) == IF get_current_user(token) = None THEN 401 ELSE 0

\* require_admin
require_admin(token) ==
    IF require_auth(token) # 0 THEN require_auth(token)
    ELSE IF get_current_user(token)[1].ruolo # UserRole.ADMIN THEN 403
    ELSE 0

\* require_teacher_or_admin
require_teacher_or_admin(token) ==
    IF require_auth(token) # 0 THEN require_auth(token)
    ELSE IF get_current_user(token)[1].ruolo \notin {UserRole.ADMIN, UserRole.TEACHER} THEN 403
    ELSE 0

-----------------------------------------------------------------------------
(* The state after construction: a populated academy, everybody logged in *)

\* pwd_context.hash: the hash of a password, which verify_password recomputes
hash_password(password) == "hash." \o password

verify_password(plain_password, hashed_password) ==
    hash_password(plain_password) = hashed_password

\* the e-mail address and the password of the user with the given id
EmailOf(id) == id \o "@musici.it"
PasswordOf(id) == "pw." \o id

Utente(id, ruolo, attivo) ==
    [id |-> id, ruolo |-> ruolo, attivo |-> attivo,
     email |-> EmailOf(id), password_hash |-> hash_password(PasswordOf(id))]

\* a session row as login writes it
Sessione(token, utente_id, creata) ==
    [token_sessione |-> token, utente_id |-> utente_id,
     data_creazione |-> creata,
     data_scadenza |-> creata + timedelta_days(ACCESS_TOKEN_EXPIRE_DAYS)]

InitUtenti ==
    <<Utente(Admin1, UserRole.ADMIN, TRUE),
      Utente(Teacher1, UserRole.TEACHER, TRUE),
      Utente(Student1, UserRole.STUDENT, TRUE),
      Utente(Student2, UserRole.STUDENT, FALSE)>>

InitSessioni ==
    <<Sessione("tok_adm1", Admin1, Clock[1]),
      Sessione("tok_ins1", Teacher1, Clock[1]),
      Sessione("tok_all1", Student1, Clock[1]),
      Sessione("tok_all2", Student2, DateTime("2025-07", 2, 0, 0, 0))>>

\* the second factor create_user stores beside an admin
InitAccessoAmministrazione ==
    <<[id |-> <<"accesso_amministrazione", 0>>, utente_id |-> Admin1,
       pin_hash |-> hash_password("1234"), pin_attivo |-> TRUE, google_id |-> None, ultimo_accesso |-> None]>>

\* the details stored beside each student
InitAllieviDettaglio ==
    <<[id |-> <<"allievi_dettaglio", 0>>, utente_id |-> Student1,
       corso_principale |-> "pianoforte"],
      [id |-> <<"allievi_dettaglio", -1>>, utente_id |-> Student2,
       corso_principale |-> "violino"]>>

\* the details stored beside each teacher
InitInsegnantiDettaglio ==
    <<[id |-> <<"insegnanti_dettaglio", 0>>, utente_id |-> Teacher1,
       specializzazione |-> "pianoforte", compenso_orario |-> 30]>>

\* the database and the counters at startup; the clock is set by each Init
InitDb ==
    /\ uuid = [c \in Collections |-> 0]
    /\ utenti = InitUtenti
    /\ sessioni = InitSessioni
    /\ pagamenti = << >>
    /\ richieste_pagamento = << >>
    /\ notifiche = << >>
    /\ presenze = << >>
    /\ compensi = << >>
    /\ accesso_amministrazione = InitAccessoAmministrazione
    /\ allievi_dettaglio = InitAllieviDettaglio
    /\ insegnanti_dettaglio = InitInsegnantiDettaglio
    /\ slot_lezioni = << >>
    /\ in_flight = << >>
    /\ storia = << >>
    /\ risposta = [op |-> "startup", request |-> << >>, status_code |-> 200]
    /\ tolleranza_richiesta = << >>

Init == tz_aware \in BOOLEAN /\ now = Clock[1] /\ InitDb

\* startup with the client as AsyncIOMotorClient creates it from a plain URL; the
\* routes that compare no datetime read from a document, or normalise it first
\* as get_current_user does, behave the same under either setting
InitDefaultClient == tz_aware = FALSE /\ now = Clock[1] /\ InitDb

\* time passes between two requests
Tick ==
    /\ \E i \in 1..Len(Clock) : Clock[i] > now /\ now' = Clock[i]
    /\ risposta' = [op |-> "tick", request |-> << >>, status_code |-> 200]
    /\ UNCHANGED <<tz_aware, in_flight, storia, uuid, db, tolleranza_richiesta>>

-----------------------------------------------------------------------------
(* Payment requests *)

\* the loop of create_payment_request over destinatari_ids, from position i
RECURSIVE create_payment_request_loop(_, _, _)
create_payment_request_loop(request_data, i, acc) ==
    IF i > Len(request_data.destinatari_ids) THEN acc
    ELSE
        LET utente_id == request_data.destinatari_ids[i]
            u == FindById(utenti, utente_id)
            notification ==
                [id |-> uuid4(acc.uuid, "notifiche"),
                 titolo |-> "Pagamento da Effettuare",
                 messaggio |-> <<"Causale", request_data.causale, "Importo",
                                 request_data.importo, "Scadenza", request_data.scadenza>>,
                 tipo |-> NotificationType.PAYMENT_REQUEST,
                 destinatari_ids |-> <<utente_id>>,
                 attivo |-> TRUE,
                 data_creazione |-> now]
            payment_request ==
                [id |-> uuid4(acc.uuid, "richieste_pagamento"),
                 utente_id |-> utente_id,
                 importo |-> request_data.importo,
                 causale |-> request_data.causale,
                 scadenza |-> fromisoformat(request_data.scadenza),
                 note |-> request_data.note,
                 stato |-> PaymentRequestStatus.PENDING,
                 data_creazione |-> now,
                 notification_id |-> notification.id]
        IN  IF u = 0 \/ utenti[u].ruolo # UserRole.STUDENT
            THEN create_payment_request_loop(request_data, i + 1, acc)
            ELSE create_payment_request_loop(request_data, i + 1,
                    [uuid |-> Issued(Issued(acc.uuid, "notifiche"), "richieste_pagamento"),
                     notifiche |-> Append(acc.notifiche, notification),
                     richieste_pagamento |-> Append(acc.richieste_pagamento, payment_request),
                     created_requests |-> Append(acc.created_requests, payment_request.id)])

\* POST /richieste-pagamento
create_payment_request(token, request_data) ==
    LET op == "create_payment_request"
        request == [token |-> token]
        out == create_payment_request_loop(request_data, 1,
                  [uuid |-> uuid, notifiche |-> notifiche,
                   richieste_pagamento |-> richieste_pagamento,
                   created_requests |-> << >>])
    IN  /\ IssuedByRequests(out.uuid) <= MaxUuid
        /\ IF require_admin(token) # 0 THEN Raise(op, request, require_admin(token))
           ELSE /\ uuid' = out.uuid
                /\ notifiche' = out.notifiche
                /\ richieste_pagamento' = out.richieste_pagamento
                /\ risposta' = [op |-> op, request |-> request, status_code |-> 200,
                                requests |-> out.created_requests]
                /\ UNCHANGED <<tz_aware, in_flight, storia, dettagli, slot_lezioni, now, utenti, sessioni, pagamenti, presenze, compensi,
                               tolleranza_richiesta>>

\* the ownership check of confirm_payment_request
not_owner_skipped(payment_request, current_user) == FALSE

not_owner(payment_request, current_user) ==
    payment_request["utente_id"] # current_user["id"]

\* PUT /richieste-pagamento/{request_id}/conferma
confirm_payment_request(token, request_id, body) ==
    LET op == "confirm_payment_request"
        request == [token |-> token, request_id |-> request_id]
        current_user == get_current_user(token)
        note_allievo == Get(body, "note_allievo", "")
        i == FindById(richieste_pagamento, request_id)
    IN  IF require_auth(token) # 0 THEN Raise(op, request, require_auth(token))
        ELSE IF i = 0 THEN Raise(op, request, 404)
        ELSE IF not_owner(richieste_pagamento[i], current_user[1])
        THEN Raise(op, request, 403)
        ELSE /\ richieste_pagamento' = UpdateOne(richieste_pagamento, request_id,
                    [stato |-> PaymentRequestStatus.CONFIRMED,
                     data_conferma_allievo |-> now,
                     note_allievo |-> note_allievo])
             /\ risposta' = [op |-> op, request |-> request, status_code |-> 200]
             /\ UNCHANGED <<tz_aware, in_flight, storia, dettagli, slot_lezioni, now, uuid, utenti, sessioni, pagamenti, notifiche,
                            presenze, compensi, tolleranza_richiesta>>

approve_payment_unpaid(payment_request, id) ==
    [id |-> id,
     utente_id |-> payment_request.utente_id,
     tipo |-> PaymentType.MONTHLY,
     importo |-> payment_request.importo,
     descrizione |-> payment_request.causale,
     data_scadenza |-> payment_request.scadenza,
     stato |-> PaymentStatus.PENDING,
     data_pagamento |-> None,
     visibile_utente |-> TRUE,
     data_creazione |-> now]

\* the Payment row approve_payment_request inserts
approve_payment(payment_request, id) ==
    [id |-> id,
     utente_id |-> payment_request.utente_id,
     tipo |-> PaymentType.MONTHLY,
     importo |-> payment_request.importo,
     descrizione |-> payment_request.causale,
     data_scadenza |-> payment_request.scadenza,
     stato |-> PaymentStatus.PAID,
     data_pagamento |-> Some(now),
     visibile_utente |-> TRUE,
     data_creazione |-> now]

\* PUT /richieste-pagamento/{request_id}/approva
approve_payment_request(token, request_id) ==
    LET op == "approve_payment_request"
        request == [token |-> token, request_id |-> request_id]
        i == FindById(richieste_pagamento, request_id)
        payment_request == richieste_pagamento[i]
        payment == approve_payment(payment_request, uuid4(uuid, "pagamenti"))
    IN  /\ IssuedByRequests(uuid) < MaxUuid
        /\ IF require_admin(token) # 0 THEN Raise(op, request, require_admin(token))
           ELSE IF i = 0 THEN Raise(op, request, 404)
           ELSE /\ richieste_pagamento' = UpdateOne(richieste_pagamento, request_id,
                       [stato |-> PaymentRequestStatus.APPROVED,
                        data_approvazione_admin |-> now])
                /\ uuid' = Issued(uuid, "pagamenti")
                /\ pagamenti' = Append(pagamenti, payment)
                /\ notifiche' =
                       IF "notification_id" \in DOMAIN payment_request
                       THEN UpdateOne(notifiche, payment_request.notification_id,
                                [titolo |-> "Pagamento Approvato",
                                 messaggio |-> <<"approvato", payment_request.importo,
                                                 payment_request.causale>>])
                       ELSE notifiche
                /\ risposta' = [op |-> op, request |-> request, status_code |-> 200,
                                payment_id |-> payment.id]
                /\ storia' = Append(storia, [op |-> op, request_id |-> request_id,
                                              payment_id |-> payment.id])
                /\ UNCHANGED <<tz_aware, in_flight, dettagli, slot_lezioni, now, utenti, sessioni, presenze, compensi,
                               tolleranza_richiesta>>

\* PUT /richieste-pagamento/{request_id}/rifiuta
reject_payment_request(token, request_id, body) ==
    LET op == "reject_payment_request"
        request == [token |-> token, request_id |-> request_id]
        motivo == Get(body, "motivo", "")
        i == FindById(richieste_pagamento, request_id)
        payment_request == richieste_pagamento[i]
    IN  IF require_admin(token) # 0 THEN Raise(op, request, require_admin(token))
        ELSE IF i = 0 THEN Raise(op, request, 404)
        ELSE /\ richieste_pagamento' = UpdateOne(richieste_pagamento, request_id,
                    [stato |-> PaymentRequestStatus.REJECTED,
                     note_admin |-> motivo])
             /\ notifiche' =
                    IF "notification_id" \in DOMAIN payment_request
                    THEN UpdateOne(notifiche, payment_request.notification_id,
                             [titolo |-> "Pagamento Rifiutato",
                              messaggio |-> <<"rifiutato", motivo>>])
                    ELSE notifiche
             /\ risposta' = [op |-> op, request |-> request, status_code |-> 200]
             /\ UNCHANGED <<tz_aware, in_flight, storia, dettagli, slot_lezioni, now, uuid, utenti, sessioni, pagamenti, presenze, compensi,
                            tolleranza_richiesta>>

\* the ids the callers name: those of the stored requests and one of none
RequestIds ==
    {richieste_pagamento[i].id : i \in 1..Len(richieste_pagamento)}
        \cup {<<"richieste_pagamento", 0>>}

\* the bodies the callers send
PaymentRequestCreates ==
    {[destinatari_ids |-> <<Student1>>, importo |-> 100, causale |-> <<"Iscrizione">>,
      scadenza |-> IsoDate("2025-07", 10), note |-> None],
     [destinatari_ids |-> <<Teacher1, Student2>>, importo |-> 150,
      causale |-> <<"Quota", "2025-07">>,
      scadenza |-> IsoDate("2025-07", 6), note |-> Some("saldo")]}

ConfirmBodies == {<< >>, [note_allievo |-> "bonifico"]}
RejectBodies == {<< >>, [motivo |-> "mancante"]}

CreatePaymentRequest ==
    \E token \in AdminCallers, request_data \in PaymentRequestCreates :
        create_payment_request(token, request_data)

ConfirmPaymentRequest ==
    \E token \in Tokens, request_id \in RequestIds, body \in ConfirmBodies :
        confirm_payment_request(token, request_id, body)

ApprovePaymentRequest ==
    \E token \in AdminCallers, request_id \in RequestIds :
        approve_payment_request(token, request_id)

RejectPaymentRequest ==
    \E token \in AdminCallers, request_id \in RequestIds, body \in RejectBodies :
        reject_payment_request(token, request_id, body)

\* the workflow, served within one instant
NextRichieste ==
    \/ CreatePaymentRequest
    \/ ConfirmPaymentRequest
    \/ ApprovePaymentRequest
    \/ RejectPaymentRequest

SpecRichieste == InitDefaultClient /\ [][NextRichieste]_vars

-----------------------------------------------------------------------------
(* Payments: creation, update, the overdue sweep, the monthly generation *)

\* POST /pagamenti
create_payment(token, payment_data) ==
    LET op == "create_payment"
        request == [token |-> token]
        payment ==
            [id |-> uuid4(uuid, "pagamenti"),
             utente_id |-> payment_data.utente_id,
             tipo |-> payment_data.tipo,
             importo |-> payment_data.importo,
             descrizione |-> payment_data.descrizione,
             data_scadenza |-> fromisoformat(payment_data.data_scadenza),
             stato |-> PaymentStatus.PENDING,
             visibile_utente |-> TRUE,
             data_creazione |-> now]
    IN  /\ Len(pagamenti) < MaxPagamenti
        /\ IF require_admin(token) # 0 THEN Raise(op, request, require_admin(token))
           ELSE /\ uuid' = Issued(uuid, "pagamenti")
                /\ pagamenti' = Append(pagamenti, payment)
                /\ tolleranza_richiesta' =
                       [id \in DOMAIN tolleranza_richiesta \cup {payment.id} |->
                           IF id = payment.id THEN payment_data.tolleranza_giorni
                           ELSE tolleranza_richiesta[id]]
                /\ risposta' = [op |-> op, request |-> request, status_code |-> 200,
                                id |-> payment.id]
                /\ UNCHANGED <<tz_aware, in_flight, storia, dettagli, slot_lezioni, now, utenti, sessioni, richieste_pagamento, notifiche,
                               presenze, compensi>>

\* the $set document update_payment builds from the body
update_payment_dict(body) ==
    LET copied == {k \in {"importo", "descrizione", "data_scadenza", "stato",
                          "visibile_utente"} : k \in DOMAIN body}
        stamped == IF "stato" \in DOMAIN body /\ body["stato"] = PaymentStatus.PAID
                   THEN {"data_pagamento"} ELSE {}
    IN  [k \in copied \cup stamped |->
            IF k = "data_pagamento" THEN Some(now)
            ELSE IF k = "data_scadenza" THEN fromisoformat(body[k])
            ELSE body[k]]

\* PUT /pagamenti/{payment_id}
update_payment(token, payment_id, body) ==
    LET op == "update_payment"
        request == [token |-> token, payment_id |-> payment_id, body |-> body]
        update_dict == update_payment_dict(body)
    IN  IF require_admin(token) # 0 THEN Raise(op, request, require_admin(token))
        ELSE IF FindById(pagamenti, payment_id) = 0 THEN Raise(op, request, 404)
        ELSE /\ pagamenti' = IF DOMAIN update_dict # {}
                             THEN UpdateOne(pagamenti, payment_id, update_dict)
                             ELSE pagamenti
             /\ risposta' = [op |-> op, request |-> request, status_code |-> 200]
             /\ UNCHANGED <<tz_aware, in_flight, storia, dettagli, slot_lezioni, now, uuid, utenti, sessioni, richieste_pagamento, notifiche,
                            presenze, compensi, tolleranza_richiesta>>

\* datetime.utcnow(): the instant of datetime.now(timezone.utc), without tzinfo
utcnow == now

\* the statuses update_payment_status accepts
valid_statuses == {"in_attesa", "pagato", "scaduto", "annullato"}

\* the update_data update_payment_status writes on the payment it found
update_payment_status_data(payment, stato) ==
    LET stamped == IF stato = "pagato" /\ Get(payment, "stato", None) # "pagato"
                   THEN {"data_pagamento"} ELSE {}
    IN  [k \in {"stato", "data_aggiornamento"} \cup stamped |->
            IF k = "stato" THEN stato
            ELSE IF k = "data_aggiornamento" THEN utcnow
            ELSE Some(utcnow)]

\* PUT /pagamenti/{payment_id}/stato
update_payment_status(token, payment_id, status) ==
    LET op == "update_payment_status"
        request == [token |-> token, payment_id |-> payment_id, body |-> status]
        i == FindById(pagamenti, payment_id)
    IN  IF require_admin(token) # 0 THEN Raise(op, request, require_admin(token))
        ELSE IF status.stato \notin valid_statuses THEN Raise(op, request, 400)
        ELSE IF i = 0 THEN Raise(op, request, 404)
        ELSE /\ pagamenti' =
                    UpdateOne(pagamenti, payment_id,
                              update_payment_status_data(pagamenti[i], status.stato))
             /\ risposta' = [op |-> op, request |-> request, status_code |-> 200]
             /\ UNCHANGED <<tz_aware, in_flight, storia, now, uuid, utenti, sessioni,
                            richieste_pagamento, notifiche, presenze, compensi,
                            dettagli, slot_lezioni, tolleranza_richiesta>>

\* the query of update_overdue_payments: pending and past the due date
overdue_query(payment, today) ==
    /\ "stato" \in DOMAIN payment
    /\ payment["stato"] = PaymentStatus.PENDING
    /\ "data_scadenza" \in DOMAIN payment
    /\ payment["data_scadenza"] < today

\* the due date of a payment with its tolerance added
actual_due_date(payment) ==
    payment["data_scadenza"]
        + timedelta_days(Get(payment, "tolleranza_giorni", PAYMENT_TOLERANCE_DAYS))

\* the loop of update_overdue_payments over the payments read, from position i
\* "today > actual_due_date" raises TypeError: today is aware, the due date read
\* from the document is naive
overdue_compare_raises == ~tz_aware

\* the loop of update_overdue_payments over the rows read, from position i; an
\* exception ends it
RECURSIVE update_overdue_payments_loop(_, _, _, _)
update_overdue_payments_loop(payments, today, i, acc) ==
    IF i > Len(payments) THEN acc
    ELSE IF overdue_compare_raises THEN [acc EXCEPT !.raised = TRUE]
    ELSE IF today > actual_due_date(payments[i])
    THEN update_overdue_payments_loop(payments, today, i + 1,
            [pagamenti |-> UpdateOne(acc.pagamenti, payments[i].id,
                                     [stato |-> PaymentStatus.OVERDUE]),
             updated_count |-> acc.updated_count + 1,
             raised |-> FALSE])
    ELSE update_overdue_payments_loop(payments, today, i + 1, acc)

\* the body of update_overdue_payments: the rows read, then the loop over them
overdue_sweep(rows, today) ==
    LET payments == ToList(SelectSeq(rows, LAMBDA p : overdue_query(p, today)), 1000)
    IN  update_overdue_payments_loop(payments, today, 1,
            [pagamenti |-> rows, updated_count |-> 0, raised |-> FALSE])

\* POST /automazioni/aggiorna-pagamenti-scaduti
update_overdue_payments(token) ==
    LET op == "update_overdue_payments"
        request == [token |-> token]
        today == now
        out == overdue_sweep(pagamenti, today)
    IN  IF require_admin(token) # 0 THEN Raise(op, request, require_admin(token))
        ELSE /\ pagamenti' = out.pagamenti
             /\ risposta' = IF out.raised
                             THEN [op |-> op, request |-> request, status_code |-> 500]
                             ELSE [op |-> op, request |-> request, status_code |-> 200,
                                   updated_count |-> out.updated_count]
             /\ UNCHANGED <<tz_aware, in_flight, storia, dettagli, slot_lezioni, now, uuid, utenti, sessioni, richieste_pagamento, notifiche,
                            presenze, compensi, tolleranza_richiesta>>

\* "not body.get(key)": the key is missing or its value is empty (None, "")
Falsy(body, key, empty) == key \notin DOMAIN body \/ body[key] = empty

\* the month create_monthly_payments works on
monthly_mese(body) == IF Falsy(body, "mese", "") THEN strftime_Ym(now) ELSE body["mese"]

\* the description of the payments create_monthly_payments inserts
monthly_descrizione(body) ==
    IF Falsy(body, "descrizione", << >>) THEN <<"Quota", "mensile", monthly_mese(body)>>
    ELSE body["descrizione"]

\* the due date of the payments create_monthly_payments inserts
monthly_due_date_next_day(mese) == DateTime(mese, 8, 0, 0, 0)

monthly_due_date(mese) == DateTime(mese, 7, 23, 59, 59)

\* the duplicate guard of create_monthly_payments: a row of the student, of type
\* mensile, whose description contains the month
monthly_existing(payment, student, mese) ==
    /\ "utente_id" \in DOMAIN payment /\ payment["utente_id"] = student["id"]
    /\ "tipo" \in DOMAIN payment /\ payment["tipo"] = PaymentType.MONTHLY
    /\ "descrizione" \in DOMAIN payment /\ Regex(mese, payment["descrizione"])

\* the students create_monthly_payments reads
monthly_students ==
    ToList(SelectSeq(utenti, LAMBDA u : u["ruolo"] = UserRole.STUDENT /\ u["attivo"] = TRUE), 500)

\* the payment create_monthly_payments inserts for a student
monthly_payment(student, body, id) ==
    [id |-> id,
     utente_id |-> student["id"],
     tipo |-> PaymentType.MONTHLY,
     importo |-> Get(body, "importo", 150),
     descrizione |-> monthly_descrizione(body),
     data_scadenza |-> monthly_due_date(monthly_mese(body)),
     stato |-> PaymentStatus.PENDING,
     data_pagamento |-> None,
     tolleranza_giorni |-> PAYMENT_TOLERANCE_DAYS,
     visibile_utente |-> TRUE,
     data_creazione |-> now]

\* the loop of create_monthly_payments over the students, from position i
RECURSIVE create_monthly_payments_loop(_, _, _, _)
create_monthly_payments_loop(students, body, i, acc) ==
    IF i > Len(students) THEN acc
    ELSE
        LET student == students[i]
            mese == monthly_mese(body)
            existing == \E j \in 1..Len(acc.pagamenti) :
                            monthly_existing(acc.pagamenti[j], student, mese)
            payment == monthly_payment(student, body, uuid4(acc.uuid, "pagamenti"))
        IN  IF existing THEN create_monthly_payments_loop(students, body, i + 1, acc)
            ELSE create_monthly_payments_loop(students, body, i + 1,
                    [uuid |-> Issued(acc.uuid, "pagamenti"),
                     pagamenti |-> Append(acc.pagamenti, payment),
                     created_count |-> acc.created_count + 1])

\* POST /automazioni/crea-pagamenti-mensili
create_monthly_payments(token, body) ==
    LET op == "create_monthly_payments"
        request == [token |-> token]
        out == create_monthly_payments_loop(monthly_students, body, 1,
                  [uuid |-> uuid, pagamenti |-> pagamenti, created_count |-> 0])
    IN  /\ Len(out.pagamenti) <= MaxPagamenti
        /\ IF require_admin(token) # 0 THEN Raise(op, request, require_admin(token))
           ELSE /\ uuid' = out.uuid
                /\ pagamenti' = out.pagamenti
                /\ risposta' = [op |-> op, request |-> request, status_code |-> 200,
                                mese |-> monthly_mese(body),
                                created_count |-> out.created_count]
                /\ UNCHANGED <<tz_aware, in_flight, storia, dettagli, slot_lezioni, now, utenti, sessioni, richieste_pagamento, notifiche,
                               presenze, compensi, tolleranza_richiesta>>

\* the ids the callers name: those of the stored payments and one of none
PaymentIds == {pagamenti[i].id : i \in 1..Len(pagamenti)} \cup {<<"pagamenti", 0>>}

\* the bodies the callers send
PaymentCreates ==
    {[utente_id |-> Student1, tipo |-> PaymentType.ANNUAL, importo |-> 100,
      descrizione |-> <<"Iscrizione", "2025-07">>,
      data_scadenza |-> IsoDate("2025-07", 6), tolleranza_giorni |-> 2]}

PaymentUpdates == {[stato |-> PaymentStatus.PAID]}

MonthlyBodies ==
    {<< >>,
     [mese |-> "2025-07", importo |-> 100, descrizione |-> <<"Retta">>]}

CreatePayment ==
    \E token \in AdminCallers, payment_data \in PaymentCreates :
        create_payment(token, payment_data)

UpdatePayment ==
    \E token \in AdminCallers, payment_id \in PaymentIds, body \in PaymentUpdates :
        update_payment(token, payment_id, body)

UpdateOverduePayments ==
    \E token \in AdminCallers : update_overdue_payments(token)

CreateMonthlyPayments ==
    \E token \in AdminCallers, body \in MonthlyBodies :
        create_monthly_payments(token, body)

\* the statuses a caller may name: those of the enum, one more that
\* update_payment_status accepts, and one that it refuses
StatusBodies ==
    {[stato |-> st] : st \in {PaymentStatus.PENDING, PaymentStatus.PAID,
                              PaymentStatus.OVERDUE, "annullato", "sospeso"}}

\* the admin calls of the two routes that write the status of a payment
StatusCallers == {"tok_adm1", "tok_ins1"}

UpdatePaymentStato ==
    \E token \in StatusCallers, payment_id \in PaymentIds, body \in StatusBodies :
        update_payment(token, payment_id, body)

UpdatePaymentStatus ==
    \E token \in StatusCallers, payment_id \in PaymentIds, status \in StatusBodies :
        update_payment_status(token, payment_id, status)

\* a payment is entered for the student
EnterPayment ==
    /\ uuid["pagamenti"] < MaxStato
    /\ \E payment_data \in PaymentCreates : create_payment("tok_adm1", payment_data)

NextStato ==
    \/ Tick
    \/ EnterPayment
    \/ UpdatePaymentStato
    \/ UpdatePaymentStatus
    \/ UpdateOverduePayments

SpecStato == Init /\ [][NextStato]_vars

NextPagamenti ==
    \/ Tick
    \/ CreatePayment
    \/ UpdatePayment
    \/ UpdateOverduePayments
    \/ CreateMonthlyPayments

SpecPagamenti == Init /\ [][NextPagamenti]_vars

-----------------------------------------------------------------------------
(* Attendance and teacher compensation *)

\* POST /presenze
create_attendance(token, attendance_data) ==
    LET op == "create_attendance"
        request == [token |-> token]
        current_user == get_current_user(token)
        record ==
            [id |-> uuid4(uuid, "presenze"),
             corso_id |-> attendance_data.corso_id,
             lezione_id |-> attendance_data.lezione_id,
             allievo_id |-> attendance_data.allievo_id,
             insegnante_id |-> current_user[1].id,
             data |-> fromisoformat(attendance_data.data),
             stato |-> attendance_data.stato,
             recupero_data |-> IF attendance_data.recupero_data # None
                               THEN Some(fromisoformat(attendance_data.recupero_data[1]))
                               ELSE None,
             note |-> attendance_data.note,
             data_creazione |-> now]
    IN  /\ uuid["presenze"] < MaxPresenze
        /\ IF require_teacher_or_admin(token) # 0
           THEN Raise(op, request, require_teacher_or_admin(token))
           ELSE /\ uuid' = Issued(uuid, "presenze")
                /\ presenze' = Append(presenze, record)
                /\ risposta' = [op |-> op, request |-> request, status_code |-> 200,
                                id |-> record.id]
                /\ UNCHANGED <<tz_aware, in_flight, storia, dettagli, slot_lezioni, now, utenti, sessioni, pagamenti, richieste_pagamento,
                               notifiche, compensi, tolleranza_richiesta>>

\* POST /compensi
create_compensation(token, comp_data) ==
    LET op == "create_compensation"
        request == [token |-> token]
        compensation ==
            [id |-> uuid4(uuid, "compensi"),
             insegnante_id |-> comp_data.insegnante_id,
             corso_id |-> comp_data.corso_id,
             quota_per_presenza |-> comp_data.quota_per_presenza,
             data_creazione |-> now]
    IN  /\ Len(compensi) < MaxCompensi
        /\ IF require_admin(token) # 0 THEN Raise(op, request, require_admin(token))
           ELSE /\ uuid' = Issued(uuid, "compensi")
                /\ compensi' = Append(compensi, compensation)
                /\ risposta' = [op |-> op, request |-> request, status_code |-> 200,
                                id |-> compensation.id]
                /\ UNCHANGED <<tz_aware, in_flight, storia, dettagli, slot_lezioni, now, utenti, sessioni, pagamenti, richieste_pagamento,
                               notifiche, presenze, tolleranza_richiesta>>

\* the rate calculate_teacher_compensation pays per lesson
compensation_quota(insegnante_id) ==
    LET comp == SelectSeq(compensi, LAMBDA c : c["insegnante_id"] = insegnante_id)
    IN  IF comp # << >> THEN comp[1]["quota_per_presenza"] ELSE 30

\* the attendance records calculate_teacher_compensation reads
compensation_records(insegnante_id, from_date, to_date) ==
    ToList(SelectSeq(presenze, LAMBDA r :
                /\ r["insegnante_id"] = insegnante_id
                /\ r["data"] >= fromisoformat(from_date)
                /\ r["data"] <= fromisoformat(to_date)), 1000)

\* the loop of calculate_teacher_compensation over the records, from position i;
\* reading a member the enum AttendanceStatus does not define raises AttributeError
RECURSIVE compensation_count(_, _, _)
compensation_count(records, i, acc) ==
    IF i > Len(records) THEN acc
    ELSE
        LET r == records[i]
        IN  IF r["stato"] = AttendanceStatus["PRESENT"]
            THEN compensation_count(records, i + 1,
                    [acc EXCEPT !.presenti = acc.presenti + 1])
            ELSE IF "ABSENT" \notin DOMAIN AttendanceStatus
            THEN [acc EXCEPT !.error = "AttributeError"]
            ELSE IF r["stato"] = AttendanceStatus["ABSENT"]
            THEN compensation_count(records, i + 1,
                    [acc EXCEPT !.assenti = acc.assenti + 1])
            ELSE IF "JUSTIFIED" \notin DOMAIN AttendanceStatus
            THEN [acc EXCEPT !.error = "AttributeError"]
            ELSE IF r["stato"] = AttendanceStatus["JUSTIFIED"]
            THEN compensation_count(records, i + 1,
                    [acc EXCEPT !.giustificati = acc.giustificati + 1,
                                !.recuperi = IF Get(r, "recupero_data", None) # None
                                             THEN acc.recuperi + 1 ELSE acc.recuperi])
            ELSE compensation_count(records, i + 1, acc)

\* GET /compensi/calcolo/{insegnante_id}
calculate_teacher_compensation(token, insegnante_id, from_date, to_date) ==
    LET op == "calculate_teacher_compensation"
        request == [token |-> token, insegnante_id |-> insegnante_id,
                    from_date |-> from_date, to_date |-> to_date]
        current_user == get_current_user(token)
        quota == compensation_quota(insegnante_id)
        records == compensation_records(insegnante_id, from_date, to_date)
        n == compensation_count(records, 1,
                [presenti |-> 0, assenti |-> 0, giustificati |-> 0, recuperi |-> 0,
                 error |-> ""])
        lezioni_pagate == n.presenti + n.assenti + n.recuperi
        totale == lezioni_pagate * quota
    IN  IF require_auth(token) # 0 THEN Raise(op, request, require_auth(token))
        ELSE IF /\ current_user[1].ruolo = UserRole.TEACHER
                /\ current_user[1].id # insegnante_id
        THEN Raise(op, request, 403)
        ELSE IF n.error # "" THEN Raise(op, request, 500)
        ELSE /\ risposta' = [op |-> op, request |-> request, status_code |-> 200,
                             dettaglio |-> [presenti |-> n.presenti, assenti |-> n.assenti,
                                            giustificati |-> n.giustificati,
                                            recuperi |-> n.recuperi],
                             quota_per_presenza |-> quota,
                             lezioni_pagate |-> lezioni_pagate,
                             totale_compenso |-> totale]
             /\ UNCHANGED <<tz_aware, in_flight, storia, now, uuid, db, tolleranza_richiesta>>

\* the bodies the callers send
Presenza(stato, recupero_data) ==
    [corso_id |-> None, lezione_id |-> None, allievo_id |-> Student1,
     data |-> IsoDate("2025-07", 6), stato |-> stato,
     recupero_data |-> recupero_data, note |-> None]

AttendanceCreates ==
    {Presenza(AttendanceStatus.PRESENT, None),
     Presenza(AttendanceStatus.ABSENT_UNJUSTIFIED, None),
     Presenza(AttendanceStatus.ABSENT_JUSTIFIED, None),
     Presenza(AttendanceStatus.ABSENT_JUSTIFIED, Some(IsoDate("2025-07", 8)))}

\* a teacher records every kind of attendance; the other callers one kind
AttendanceCalls ==
    ({"tok_ins1"} \X AttendanceCreates)
        \cup ({"tok_adm1", "tok_all1"} \X {Presenza(AttendanceStatus.PRESENT, None)})

CompensationCreates ==
    {[insegnante_id |-> Teacher1, corso_id |-> None, quota_per_presenza |-> q] :
        q \in {25, 40}}

Periods ==
    {<<IsoDate("2025-07", 6), IsoDate("2025-07", 6)>>,
     <<IsoDate("2025-07", 7), IsoDate("2025-07", 8)>>}

CreateAttendance ==
    \E call \in AttendanceCalls : create_attendance(call[1], call[2])

CreateCompensation ==
    \E token \in AdminCallers, comp_data \in CompensationCreates :
        create_compensation(token, comp_data)

CalculateTeacherCompensation ==
    \E token \in {"tok_adm1", "tok_ins1", NoToken},
       insegnante_id \in {Teacher1, Admin1}, period \in Periods :
        calculate_teacher_compensation(token, insegnante_id, period[1], period[2])

NextCompensi ==
    \/ CreateAttendance
    \/ CreateCompensation
    \/ CalculateTeacherCompensation

SpecCompensi == InitDefaultClient /\ [][NextCompensi]_vars

-----------------------------------------------------------------------------
(* Attendance records after their creation *)

\* "current_user['ruolo'] != UserRole.ADMIN.value": who may not modify a record
attendance_forbidden_teacher_allowed(current_user) ==
    current_user["ruolo"] \notin {UserRole.ADMIN, UserRole.TEACHER}

attendance_forbidden(current_user) == current_user["ruolo"] # UserRole.ADMIN

\* the update_dict update_attendance builds from the body of the request
update_attendance_dict(body) ==
    [k \in {"stato", "note", "recupero_data"} \cap DOMAIN body |->
        IF k = "recupero_data"
        THEN (IF body[k] # None THEN Some(fromisoformat(body[k][1])) ELSE None)
        ELSE body[k]]

\* PUT /presenze/{attendance_id}
update_attendance(token, attendance_id, body) ==
    LET op == "update_attendance"
        request == [token |-> token, attendance_id |-> attendance_id]
        current_user == get_current_user(token)
        update_dict == update_attendance_dict(body)
    IN  IF require_auth(token) # 0 THEN Raise(op, request, require_auth(token))
        ELSE IF FindById(presenze, attendance_id) = 0 THEN Raise(op, request, 404)
        ELSE IF attendance_forbidden(current_user[1]) THEN Raise(op, request, 403)
        ELSE /\ presenze' = IF DOMAIN update_dict # {}
                            THEN UpdateOne(presenze, attendance_id, update_dict)
                            ELSE presenze
             /\ risposta' = [op |-> op, request |-> request, status_code |-> 200]
             /\ UNCHANGED <<tz_aware, in_flight, storia, dettagli, slot_lezioni, now, uuid, utenti, sessioni, pagamenti,
                            richieste_pagamento, notifiche, compensi,
                            tolleranza_richiesta>>

\* delete_one({"id": id}): the collection without the first document of that id
DeleteOne(coll, id) ==
    LET i == FindById(coll, id)
    IN  IF i = 0 THEN coll ELSE SubSeq(coll, 1, i - 1) \o SubSeq(coll, i + 1, Len(coll))

\* DELETE /presenze/{attendance_id}
delete_attendance(token, attendance_id) ==
    LET op == "delete_attendance"
        request == [token |-> token, attendance_id |-> attendance_id]
    IN  IF require_admin(token) # 0 THEN Raise(op, request, require_admin(token))
        ELSE IF FindById(presenze, attendance_id) = 0 THEN Raise(op, request, 404)
        ELSE /\ presenze' = DeleteOne(presenze, attendance_id)
             /\ risposta' = [op |-> op, request |-> request, status_code |-> 200]
             /\ UNCHANGED <<tz_aware, in_flight, storia, dettagli, slot_lezioni, now, uuid, utenti, sessioni, pagamenti,
                            richieste_pagamento, notifiche, compensi,
                            tolleranza_richiesta>>

\* the ids the callers name: those stored, and one that is not
AttendanceIds == {presenze[i].id : i \in 1..Len(presenze)} \cup {<<"presenze", 0>>}

\* the bodies of the updates: a new status, a makeup date with a note, nothing
AttendanceUpdates ==
    {[stato |-> AttendanceStatus.ABSENT_JUSTIFIED],
     [recupero_data |-> Some(IsoDate("2025-07", 8)), note |-> Some("recupero")],
     << >>}

\* the callers: the admin, the teacher who records attendance, a student, nobody
AttendanceCallers == {"tok_adm1", "tok_ins1", "tok_all1", NoToken}

UpdateAttendance ==
    \E token \in AttendanceCallers, attendance_id \in AttendanceIds,
       body \in AttendanceUpdates :
        update_attendance(token, attendance_id, body)

DeleteAttendance ==
    \E token \in AttendanceCallers, attendance_id \in AttendanceIds :
        delete_attendance(token, attendance_id)

\* a teacher or the admin records a student as present
RecordAttendance ==
    /\ uuid["presenze"] < MaxRegistrate
    /\ \E token \in {"tok_ins1", "tok_adm1"} :
            create_attendance(token, Presenza(AttendanceStatus.PRESENT, None))

NextPresenze ==
    \/ RecordAttendance
    \/ UpdateAttendance
    \/ DeleteAttendance

SpecPresenze == InitDefaultClient /\ [][NextPresenze]_vars

-----------------------------------------------------------------------------
(* Sessions: login, logout and the resolution of a token *)

\* create_access_token: the JWT of the claims and of the expiry, in whole seconds
create_access_token(data, expires_delta) ==
    LET expire == now + (IF expires_delta # None THEN expires_delta[1]
                         ELSE timedelta_days(ACCESS_TOKEN_EXPIRE_DAYS))
    IN  "jwt." \o data.sub \o "." \o data.ruolo \o "." \o ToString(expire)

\* login_data.email.lower()
lower(email) ==
    CASE email = "ADM1@MUSICI.IT" -> "adm1@musici.it"
      [] email = "NUOVO@MUSICI.IT" -> "nuovo@musici.it"
      [] OTHER -> email

\* the rows of db.sessioni after login has inserted the new session
login_sessioni_single(rows, session) ==
    Append(SelectSeq(rows, LAMBDA r : r.utente_id # session.utente_id), session)

login_sessioni(rows, session) == Append(rows, session)

\* POST /auth/login
login(login_data) ==
    LET op == "login"
        request == [email |-> login_data.email]
        hits == {i \in 1..Len(utenti) : utenti[i].email = lower(login_data.email)}
        user == utenti[CHOOSE i \in hits : \A j \in hits : i <= j]
        token == create_access_token([sub |-> user.id, ruolo |-> user.ruolo], None)
        session ==
            [id |-> uuid4(uuid, "sessioni"),
             utente_id |-> user.id,
             token_sessione |-> token,
             dispositivo |-> "unknown",
             ip |-> None,
             data_creazione |-> now,
             data_scadenza |-> now + timedelta_days(ACCESS_TOKEN_EXPIRE_DAYS)]
    IN  /\ uuid["sessioni"] < MaxSessioni
        /\ IF hits = {} THEN Raise(op, request, 401)
           ELSE IF ~Get(user, "attivo", FALSE) THEN Raise(op, request, 401)
           ELSE IF ~verify_password(login_data.password, Get(user, "password_hash", ""))
           THEN Raise(op, request, 401)
           ELSE /\ uuid' = Issued(uuid, "sessioni")
                /\ sessioni' = login_sessioni(sessioni, session)
                /\ utenti' = UpdateOne(utenti, user.id, [ultimo_accesso |-> now])
                /\ risposta' = [op |-> op, request |-> request, status_code |-> 200,
                                user |-> [id |-> user.id, ruolo |-> user.ruolo,
                                          email |-> user.email, attivo |-> user.attivo],
                                token |-> token]
                /\ UNCHANGED <<tz_aware, in_flight, storia, dettagli, slot_lezioni, now, pagamenti, richieste_pagamento, notifiche,
                               presenze, compensi, tolleranza_richiesta>>

\* the filter of logout's delete_many: the rows of the presented token
logout_filter_user(session, token) ==
    \E i \in 1..Len(sessioni) :
        /\ sessioni[i].token_sessione = token
        /\ sessioni[i].utente_id = session.utente_id

logout_filter(session, token) == session.token_sessione = token

\* POST /auth/logout
logout(token) ==
    LET tk == get_session_token(token)
    IN  /\ sessioni' = IF tk # None
                       THEN SelectSeq(sessioni, LAMBDA r : ~logout_filter(r, tk[1]))
                       ELSE sessioni
        /\ risposta' = [op |-> "logout", request |-> [token |-> token],
                        status_code |-> 200]
        /\ UNCHANGED <<tz_aware, in_flight, storia, dettagli, slot_lezioni, now, uuid, utenti, pagamenti, richieste_pagamento,
                       notifiche, presenze, compensi, tolleranza_richiesta>>

\* GET /auth/me
get_me(token) ==
    LET op == "get_me"
        request == [token |-> token]
        user == get_current_user(token)
    IN  IF user = None THEN Raise(op, request, 401)
        ELSE /\ risposta' = [op |-> op, request |-> request, status_code |-> 200,
                             id |-> user[1].id, ruolo |-> user[1].ruolo,
                             attivo |-> user[1].attivo]
             /\ UNCHANGED <<tz_aware, in_flight, storia, now, uuid, db, tolleranza_richiesta>>

\* the instants at which the requests about sessions arrive: startup, then the
\* instant at which the sessions of startup expire, and the second after it
ClockSessioni ==
    <<Clock[1],
      DateTime("2025-07", 12, 0, 0, 0),
      DateTime("2025-07", 12, 0, 0, 1)>>

TickSessioni ==
    /\ \E i \in 1..Len(ClockSessioni) : ClockSessioni[i] > now /\ now' = ClockSessioni[i]
    /\ risposta' = [op |-> "tick", request |-> << >>, status_code |-> 200]
    /\ UNCHANGED <<tz_aware, in_flight, storia, uuid, db, tolleranza_richiesta>>

\* the users who log in
LoginUsers == {Admin1, Student1}

\* the bodies the callers send: the right password, a wrong one, a disabled
\* account, an address nobody has
LoginRequests ==
    {[email |-> "ADM1@MUSICI.IT", password |-> PasswordOf(Admin1)],
     [email |-> EmailOf(Student1), password |-> PasswordOf(Student1)],
     [email |-> EmailOf(Student1), password |-> "pw.sbagliata"],
     [email |-> EmailOf(Student2), password |-> PasswordOf(Student2)],
     [email |-> "nessuno@musici.it", password |-> "pw.nessuno"]}

\* the tokens a request can carry: those of the stored sessions, one that was
\* never issued, and none
SessionTokens ==
    {sessioni[i].token_sessione : i \in 1..Len(sessioni)} \cup {"tok_x", NoToken}

Login == \E login_data \in LoginRequests : login(login_data)

\* the tokens logout is called with: those of the users who log in, and none
LogoutTokens ==
    {sessioni[i].token_sessione :
        i \in {j \in 1..Len(sessioni) : sessioni[j].utente_id \in LoginUsers}}
        \cup {NoToken}

Logout == \E token \in LogoutTokens : logout(token)

GetMe == \E token \in SessionTokens : get_me(token)

NextSessioni ==
    \/ Login
    \/ Logout
    \/ GetMe
    \/ TickSessioni

SpecSessioni == InitDefaultClient /\ [][NextSessioni]_vars

-----------------------------------------------------------------------------
(* The calendar: lesson slots and their bookings *)

LessonSlotStatus ==
    [AVAILABLE |-> "disponibile", BOOKED |-> "prenotato", CANCELLED |-> "annullato"]

\* find_one({"id": id, "ruolo": ruolo}) on db.utenti: the index, 0 when none
FindUserWithRole(id, ruolo) ==
    LET hits == {i \in 1..Len(utenti) : utenti[i].id = id /\ utenti[i].ruolo = ruolo}
    IN  IF hits = {} THEN 0 ELSE CHOOSE i \in hits : \A j \in hits : i <= j

\* the query create_lesson_slot runs before it inserts: a slot of the teacher,
\* not cancelled, that starts at or after the new start and before the new end
existing_slot(slots, insegnante_id, overlap_start, overlap_end) ==
    \E i \in 1..Len(slots) :
        /\ slots[i].insegnante_id = insegnante_id
        /\ slots[i].stato # LessonSlotStatus.CANCELLED
        /\ slots[i].data >= overlap_start
        /\ slots[i].data < overlap_end

\* POST /slot-lezioni
create_lesson_slot(token, slot_data) ==
    LET op == "create_lesson_slot"
        request == [token |-> token, slot_data |-> slot_data]
        slot_datetime == fromisoformat_T(slot_data.data, slot_data.ora)
        overlap_start == slot_datetime
        overlap_end == slot_datetime + timedelta_minutes(slot_data.durata)
        slot ==
            [id |-> uuid4(uuid, "slot_lezioni"),
             insegnante_id |-> slot_data.insegnante_id,
             strumento |-> slot_data.strumento,
             data |-> slot_datetime,
             durata |-> slot_data.durata,
             stato |-> LessonSlotStatus.AVAILABLE,
             allievo_id |-> None,
             note |-> None,
             data_creazione |-> now,
             data_prenotazione |-> None]
    IN  /\ uuid["slot_lezioni"] < MaxSlot
        /\ IF require_admin(token) # 0 THEN Raise(op, request, require_admin(token))
           ELSE IF FindUserWithRole(slot_data.insegnante_id, UserRole.TEACHER) = 0
           THEN Raise(op, request, 404)
           ELSE IF existing_slot(slot_lezioni, slot_data.insegnante_id,
                                 overlap_start, overlap_end)
           THEN Raise(op, request, 400)
           ELSE /\ uuid' = Issued(uuid, "slot_lezioni")
                /\ slot_lezioni' = Append(slot_lezioni, slot)
                /\ risposta' = [op |-> op, request |-> request, status_code |-> 200,
                                id |-> slot.id]
                /\ UNCHANGED <<tz_aware, in_flight, storia, now, utenti, sessioni, pagamenti,
                               richieste_pagamento, notifiche, presenze, compensi,
                               dettagli, tolleranza_richiesta>>

\* the update_dict update_lesson_slot builds: the fields of the body that are
\* truthy (note: that are not None), data only together with ora
update_lesson_slot_dict(slot_data) ==
    LET keys ==
            {k \in {"insegnante_id", "strumento", "durata", "note"} :
                slot_data[k] # None}
            \cup (IF slot_data.data # None /\ slot_data.ora # None
                  THEN {"data"} ELSE {})
    IN  [k \in keys |->
            IF k = "data" THEN fromisoformat_T(slot_data.data[1], slot_data.ora[1])
            ELSE IF k = "note" THEN slot_data.note
            ELSE slot_data[k][1]]

\* PUT /slot-lezioni/{slot_id}
update_lesson_slot(token, slot_id, slot_data) ==
    LET op == "update_lesson_slot"
        request == [token |-> token, slot_id |-> slot_id, slot_data |-> slot_data]
        update_dict == update_lesson_slot_dict(slot_data)
    IN  IF require_admin(token) # 0 THEN Raise(op, request, require_admin(token))
        ELSE IF FindById(slot_lezioni, slot_id) = 0 THEN Raise(op, request, 404)
        ELSE IF /\ slot_data.insegnante_id # None
                /\ FindUserWithRole(slot_data.insegnante_id[1], UserRole.TEACHER) = 0
        THEN Raise(op, request, 404)
        ELSE /\ slot_lezioni' = IF DOMAIN update_dict # {}
                                THEN UpdateOne(slot_lezioni, slot_id, update_dict)
                                ELSE slot_lezioni
             /\ risposta' = [op |-> op, request |-> request, status_code |-> 200]
             /\ UNCHANGED <<tz_aware, in_flight, storia, now, uuid, utenti, sessioni, pagamenti,
                            richieste_pagamento, notifiche, presenze, compensi,
                            dettagli, tolleranza_richiesta>>

\* DELETE /slot-lezioni/{slot_id}: a slot that is booked is cancelled instead
delete_lesson_slot(token, slot_id) ==
    LET op == "delete_lesson_slot"
        request == [token |-> token, slot_id |-> slot_id]
        i == FindById(slot_lezioni, slot_id)
    IN  IF require_admin(token) # 0 THEN Raise(op, request, require_admin(token))
        ELSE IF i = 0 THEN Raise(op, request, 404)
        ELSE /\ slot_lezioni' =
                    IF Get(slot_lezioni[i], "allievo_id", None) # None
                    THEN UpdateOne(slot_lezioni, slot_id,
                                   [stato |-> LessonSlotStatus.CANCELLED])
                    ELSE DeleteOne(slot_lezioni, slot_id)
             /\ risposta' = [op |-> op, request |-> request, status_code |-> 200]
             /\ UNCHANGED <<tz_aware, in_flight, storia, now, uuid, utenti, sessioni, pagamenti,
                            richieste_pagamento, notifiche, presenze, compensi,
                            dettagli, tolleranza_richiesta>>

\* POST /slot-lezioni/{slot_id}/prenota
book_lesson_slot(token, slot_id, booking_data) ==
    LET op == "book_lesson_slot"
        request == [token |-> token, slot_id |-> slot_id]
        current_user == get_current_user(token)
        i == FindById(slot_lezioni, slot_id)
        as_admin == /\ current_user[1].ruolo = UserRole.ADMIN
                    /\ booking_data.allievo_id # None
        booker_id == IF as_admin THEN booking_data.allievo_id[1]
                     ELSE current_user[1].id
    IN  IF require_auth(token) # 0 THEN Raise(op, request, require_auth(token))
        ELSE IF i = 0 THEN Raise(op, request, 404)
        ELSE IF slot_lezioni[i].stato # LessonSlotStatus.AVAILABLE
        THEN Raise(op, request, 400)
        ELSE IF /\ as_admin
                /\ FindUserWithRole(booking_data.allievo_id[1], UserRole.STUDENT) = 0
        THEN Raise(op, request, 404)
        ELSE IF ~as_admin /\ current_user[1].ruolo # UserRole.STUDENT
        THEN Raise(op, request, 403)
        ELSE /\ slot_lezioni' =
                    UpdateOne(slot_lezioni, slot_id,
                              [stato |-> LessonSlotStatus.BOOKED,
                               allievo_id |-> Some(booker_id),
                               data_prenotazione |-> Some(now)])
             /\ risposta' = [op |-> op, request |-> request, status_code |-> 200]
             /\ UNCHANGED <<tz_aware, in_flight, storia, now, uuid, utenti, sessioni, pagamenti,
                            richieste_pagamento, notifiche, presenze, compensi,
                            dettagli, tolleranza_richiesta>>

\* POST /slot-lezioni/{slot_id}/annulla
cancel_booking(token, slot_id) ==
    LET op == "cancel_booking"
        request == [token |-> token, slot_id |-> slot_id]
        current_user == get_current_user(token)
        i == FindById(slot_lezioni, slot_id)
    IN  IF require_auth(token) # 0 THEN Raise(op, request, require_auth(token))
        ELSE IF i = 0 THEN Raise(op, request, 404)
        ELSE IF slot_lezioni[i].stato # LessonSlotStatus.BOOKED
        THEN Raise(op, request, 400)
        ELSE IF /\ current_user[1].ruolo = UserRole.STUDENT
                /\ Get(slot_lezioni[i], "allievo_id", None) # Some(current_user[1].id)
        THEN Raise(op, request, 403)
        ELSE IF current_user[1].ruolo \notin {UserRole.STUDENT, UserRole.ADMIN}
        THEN Raise(op, request, 403)
        ELSE /\ slot_lezioni' =
                    UpdateOne(slot_lezioni, slot_id,
                              [stato |-> LessonSlotStatus.AVAILABLE,
                               allievo_id |-> None,
                               data_prenotazione |-> None])
             /\ risposta' = [op |-> op, request |-> request, status_code |-> 200]
             /\ UNCHANGED <<tz_aware, in_flight, storia, now, uuid, utenti, sessioni, pagamenti,
                            richieste_pagamento, notifiche, presenze, compensi,
                            dettagli, tolleranza_richiesta>>

\* the slots the admin offers: the teacher's hour from 10:00, and a half hour
\* inside it
SlotCreates ==
    {[insegnante_id |-> Teacher1, strumento |-> "pianoforte",
      data |-> IsoDate("2025-07", 10), ora |-> IsoTime(10, 0), durata |-> 60],
     [insegnante_id |-> Teacher1, strumento |-> "pianoforte",
      data |-> IsoDate("2025-07", 10), ora |-> IsoTime(10, 30), durata |-> 30],
     [insegnante_id |-> Student1, strumento |-> "pianoforte",
      data |-> IsoDate("2025-07", 10), ora |-> IsoTime(12, 0), durata |-> 30]}

\* a body of update_lesson_slot that changes nothing
NoSlotUpdate ==
    [insegnante_id |-> None, strumento |-> None, data |-> None, ora |-> None,
     durata |-> None, note |-> None]

\* the bodies of the updates: another time, a longer lesson, a note
SlotUpdates ==
    {[NoSlotUpdate EXCEPT !.data = Some(IsoDate("2025-07", 10)),
                          !.ora = Some(IsoTime(10, 0))],
     [NoSlotUpdate EXCEPT !.durata = Some(60)],
     [NoSlotUpdate EXCEPT !.note = Some("sala 2")]}

\* the slots the callers name: those stored, and one that is not
SlotIds ==
    {slot_lezioni[i].id : i \in 1..Len(slot_lezioni)} \cup {<<"slot_lezioni", 0>>}

\* the bookings: for oneself, or (the admin) for a student
BookLessonRequests == {[allievo_id |-> None], [allievo_id |-> Some(Student1)]}

CreateLessonSlot ==
    \E token \in AdminCallers, slot_data \in SlotCreates :
        create_lesson_slot(token, slot_data)

UpdateLessonSlot ==
    \E token \in AdminCallers, slot_id \in SlotIds, slot_data \in SlotUpdates :
        update_lesson_slot(token, slot_id, slot_data)

DeleteLessonSlot ==
    \E token \in AdminCallers, slot_id \in SlotIds : delete_lesson_slot(token, slot_id)

BookLessonSlot ==
    \E token \in AdminCallers, slot_id \in SlotIds,
       booking_data \in BookLessonRequests :
        book_lesson_slot(token, slot_id, booking_data)

CancelBooking ==
    \E token \in AdminCallers, slot_id \in SlotIds : cancel_booking(token, slot_id)

NextSlot ==
    \/ CreateLessonSlot
    \/ UpdateLessonSlot
    \/ DeleteLessonSlot
    \/ BookLessonSlot
    \/ CancelBooking

SpecSlot == InitDefaultClient /\ [][NextSlot]_vars

-----------------------------------------------------------------------------
(* Users: the deletion of an account *)

\* delete_many({"utente_id": user_id}): the documents of the other users
delete_many_utente_kept(coll, user_id) == coll

delete_many_utente(coll, user_id) ==
    SelectSeq(coll, LAMBDA d : d.utente_id # user_id)

\* DELETE /utenti/{user_id}
delete_user(token, user_id) ==
    LET op == "delete_user"
        request == [token |-> token, user_id |-> user_id]
    IN  IF require_admin(token) # 0 THEN Raise(op, request, require_admin(token))
        ELSE IF FindById(utenti, user_id) = 0 THEN Raise(op, request, 404)
        ELSE /\ utenti' = DeleteOne(utenti, user_id)
             /\ sessioni' = delete_many_utente(sessioni, user_id)
             /\ accesso_amministrazione' =
                    delete_many_utente(accesso_amministrazione, user_id)
             /\ allievi_dettaglio' = delete_many_utente(allievi_dettaglio, user_id)
             /\ insegnanti_dettaglio' =
                    delete_many_utente(insegnanti_dettaglio, user_id)
             /\ risposta' = [op |-> op, request |-> request, status_code |-> 200]
             /\ UNCHANGED <<tz_aware, in_flight, storia, now, uuid, pagamenti, richieste_pagamento,
                            notifiche, presenze, compensi, slot_lezioni,
                            tolleranza_richiesta>>

\* the users the callers name: those of the academy, and one that does not exist
UserIds == {Admin1, Teacher1, Student1, Student2, "nessuno"}

\* the callers of the deletion: the admin, the teacher, a student, nobody
DeleteUserCallers == {"tok_adm1", "tok_ins1", "tok_all1", NoToken}

DeleteUser ==
    \E token \in DeleteUserCallers, user_id \in UserIds : delete_user(token, user_id)

NextUtenti ==
    \/ DeleteUser
    \/ RecordAttendance
    \/ CreatePayment

SpecUtenti == InitDefaultClient /\ [][NextUtenti]_vars

-----------------------------------------------------------------------------
(* Users: creation and update, request by request.  A handler is a        *)
(* coroutine: at every await of a database call the event loop may run    *)
(* another request.  A handler that reads and then writes is split at the *)
(* await of its write: the first step does the reads and suspends the     *)
(* request in in_flight, the second resumes it and does the writes.       *)

\* the request is suspended with what it has read
Suspend(request) ==
    /\ in_flight' = Append(in_flight, request)
    /\ risposta' = [op |-> "await", request |-> request, status_code |-> 0]

\* the suspended requests without the i-th, which is resumed
Resume(i) == SubSeq(in_flight, 1, i - 1) \o SubSeq(in_flight, i + 1, Len(in_flight))

\* find_one({"email": email}) on db.utenti finds a document
email_exists(email) == \E i \in 1..Len(utenti) : utenti[i].email = email

\* find_one({"email": email, "id": {"$ne": user_id}}) finds a document
email_exists_other(email, user_id) ==
    \E i \in 1..Len(utenti) : utenti[i].email = email /\ utenti[i].id # user_id

\* POST /utenti, up to the await of insert_one
create_user_check(token, user_data) ==
    LET op == "create_user"
        request == [op |-> op, token |-> token, user_data |-> user_data]
    IN  IF require_admin(token) # 0 THEN Raise(op, request, require_admin(token))
        ELSE IF email_exists(lower(user_data.email)) THEN Raise(op, request, 400)
        ELSE /\ Suspend(request)
             /\ UNCHANGED <<tz_aware, storia, now, uuid, db, tolleranza_richiesta>>

\* POST /utenti, from insert_one on
create_user_insert(i) ==
    LET request == in_flight[i]
        user_data == request.user_data
        user_id == uuid4_utente(uuid["utenti"] + 1)
        new_user ==
            [id |-> user_id,
             ruolo |-> user_data.ruolo,
             email |-> lower(user_data.email),
             password_hash |-> hash_password(user_data.password),
             attivo |-> TRUE,
             first_login |-> TRUE]
        admin_access ==
            [id |-> <<"accesso_amministrazione", uuid["utenti"] + 1>>,
             utente_id |-> user_id, pin_hash |-> hash_password("1234"),
             pin_attivo |-> TRUE, google_id |-> None, ultimo_accesso |-> None]
    IN  /\ request.op = "create_user"
        /\ in_flight' = Resume(i)
        /\ uuid' = Issued(uuid, "utenti")
        /\ utenti' = Append(utenti, new_user)
        /\ accesso_amministrazione' =
               IF user_data.ruolo = UserRole.ADMIN
               THEN Append(accesso_amministrazione, admin_access)
               ELSE accesso_amministrazione
        /\ risposta' = [op |-> "create_user", request |-> request,
                        status_code |-> 200, id |-> user_id]
        /\ UNCHANGED <<tz_aware, storia, now, sessioni, pagamenti, richieste_pagamento,
                       notifiche, presenze, compensi, allievi_dettaglio,
                       insegnanti_dettaglio, slot_lezioni, tolleranza_richiesta>>

\* the update_dict update_user builds from the fields that are not None
update_user_dict(user_data) ==
    LET keys == {k \in {"email", "password", "attivo"} : user_data[k] # None}
    IN  [k \in {IF k = "password" THEN "password_hash" ELSE k : k \in keys} |->
            IF k = "email" THEN lower(user_data.email[1])
            ELSE IF k = "password_hash" THEN hash_password(user_data.password[1])
            ELSE user_data.attivo[1]]

\* PUT /utenti/{user_id}, up to the await of update_one
update_user_check(token, user_id, user_data) ==
    LET op == "update_user"
        request == [op |-> op, token |-> token, user_id |-> user_id,
                    user_data |-> user_data]
    IN  IF require_admin(token) # 0 THEN Raise(op, request, require_admin(token))
        ELSE IF FindById(utenti, user_id) = 0 THEN Raise(op, request, 404)
        ELSE IF /\ user_data.email # None
                /\ email_exists_other(lower(user_data.email[1]), user_id)
        THEN Raise(op, request, 400)
        ELSE /\ Suspend(request)
             /\ UNCHANGED <<tz_aware, storia, now, uuid, db, tolleranza_richiesta>>

\* PUT /utenti/{user_id}, from update_one on
update_user_write(i) ==
    LET request == in_flight[i]
        update_dict == update_user_dict(request.user_data)
    IN  /\ request.op = "update_user"
        /\ in_flight' = Resume(i)
        /\ utenti' = IF DOMAIN update_dict # {}
                     THEN UpdateOne(utenti, request.user_id, update_dict)
                     ELSE utenti
        /\ risposta' = [op |-> "update_user", request |-> request,
                        status_code |-> 200]
        /\ UNCHANGED <<tz_aware, storia, now, uuid, sessioni, pagamenti,
                       richieste_pagamento, notifiche, presenze, compensi, dettagli,
                       slot_lezioni, tolleranza_richiesta>>

\* the users the admin enters: a new address, the same in capitals, one in use
UserCreates ==
    {[ruolo |-> UserRole.STUDENT, email |-> "nuovo@musici.it", password |-> "pw.nuovo"],
     [ruolo |-> UserRole.TEACHER, email |-> "NUOVO@MUSICI.IT", password |-> "pw.nuovo"],
     [ruolo |-> UserRole.STUDENT, email |-> EmailOf(Student1), password |-> "pw.x"]}

\* a body of update_user that changes nothing
NoUserUpdate == [email |-> None, password |-> None, attivo |-> None]

\* the changes the admin makes: another address, one that is in use
UserUpdates ==
    {[NoUserUpdate EXCEPT !.email = Some("NUOVO@MUSICI.IT")],
     [NoUserUpdate EXCEPT !.email = Some(EmailOf(Teacher1))]}

\* the users the admin updates
UpdatedUsers == {Student1, Teacher1, "nessuno"}

CreateUserCheck ==
    /\ uuid["utenti"] + Len(in_flight) < MaxUtenti
    /\ \E token \in AdminCallers, user_data \in UserCreates :
            create_user_check(token, user_data)

CreateUserInsert == \E i \in 1..Len(in_flight) : create_user_insert(i)

UpdateUserCheck ==
    /\ Len(in_flight) < MaxInFlight
    /\ \E token \in AdminCallers, user_id \in UpdatedUsers, user_data \in UserUpdates :
            update_user_check(token, user_id, user_data)

UpdateUserWrite == \E i \in 1..Len(in_flight) : update_user_write(i)

NextEmail ==
    \/ CreateUserCheck
    \/ CreateUserInsert
    \/ UpdateUserCheck
    \/ UpdateUserWrite

SpecEmail == InitDefaultClient /\ [][NextEmail]_vars

-----------------------------------------------------------------------------
(* Routes that write without asking for an admin: the lesson reminder and *)
(* the seeding of the database                                            *)

\* the notification send_lesson_notification stores for one recipient
lesson_notification(issued, utente_id, slot, slot_id) ==
    [id |-> uuid4(issued, "notifiche"),
     utente_id |-> utente_id,
     tipo |-> "lezione",
     titolo |-> <<"Promemoria", slot.strumento>>,
     messaggio |-> <<slot.strumento, slot.data>>,
     letta |-> FALSE,
     data |-> utcnow,
     riferimento_id |-> slot_id,
     riferimento_tipo |-> "slot_lezione"]

\* POST /slot-lezioni/{slot_id}/notifica
send_lesson_notification(token, slot_id, notif) ==
    LET op == "send_lesson_notification"
        request == [token |-> token, slot_id |-> slot_id]
        i == FindById(slot_lezioni, slot_id)
        slot == slot_lezioni[i]
        teacher == FindById(utenti, slot.insegnante_id)
        student == IF Get(slot, "allievo_id", None) # None
                   THEN FindById(utenti, slot.allievo_id[1]) ELSE 0
        to_student == /\ student # 0
                      /\ notif.destinatari \cap {"allievo", "entrambi"} # {}
        to_teacher == /\ teacher # 0
                      /\ notif.destinatari \cap {"insegnante", "entrambi"} # {}
        issued1 == IF to_student THEN Issued(uuid, "notifiche") ELSE uuid
        sent1 == IF to_student
                 THEN Append(notifiche,
                        lesson_notification(uuid, utenti[student].id, slot, slot_id))
                 ELSE notifiche
        issued2 == IF to_teacher THEN Issued(issued1, "notifiche") ELSE issued1
        sent2 == IF to_teacher
                 THEN Append(sent1,
                        lesson_notification(issued1, utenti[teacher].id, slot, slot_id))
                 ELSE sent1
    IN  IF require_teacher_or_admin(token) # 0
        THEN Raise(op, request, require_teacher_or_admin(token))
        ELSE IF i = 0 THEN Raise(op, request, 404)
        ELSE /\ uuid' = issued2
             /\ notifiche' = sent2
             /\ risposta' = [op |-> op, request |-> request, status_code |-> 200]
             /\ UNCHANGED <<tz_aware, in_flight, storia, now, utenti, sessioni, pagamenti,
                            richieste_pagamento, presenze, compensi, dettagli,
                            slot_lezioni, tolleranza_richiesta>>

\* the sample teachers and students of seed_database
SeedTeachers ==
    <<[email |-> "mario.rossi@musici.it", spec |-> "pianoforte", compenso |-> 30],
      [email |-> "lucia.bianchi@musici.it", spec |-> "violino", compenso |-> 35],
      [email |-> "paolo.verdi@musici.it", spec |-> "chitarra", compenso |-> 28],
      [email |-> "anna.neri@musici.it", spec |-> "canto", compenso |-> 32]>>

SeedStudents ==
    <<[email |-> "giulia.ferrari@email.it", corso |-> "pianoforte"],
      [email |-> "marco.romano@email.it", corso |-> "pianoforte"],
      [email |-> "sara.conti@email.it", corso |-> "violino"],
      [email |-> "luca.esposito@email.it", corso |-> "chitarra"],
      [email |-> "anna.bruno@email.it", corso |-> "canto"]>>

\* a user as seed_database writes it
SeedUser(id, ruolo, email, password) ==
    [id |-> id, ruolo |-> ruolo, attivo |-> TRUE, email |-> email,
     password_hash |-> hash_password(password)]

\* the documents seed_database inserts, the counters being at issued
seed_documents(issued) ==
    LET k == issued["utenti"]
        teacher_id(t) == uuid4_utente(k + 1 + t)
        student_id(n) == uuid4_utente(k + 1 + Len(SeedTeachers) + n)
    IN  [utenti |->
            <<SeedUser(uuid4_utente(k + 1), UserRole.ADMIN,
                       "acc.imusici@gmail.com", "Accademia2026")>>
            \o [t \in 1..Len(SeedTeachers) |->
                   SeedUser(teacher_id(t), UserRole.TEACHER,
                            SeedTeachers[t].email, "teacher123")]
            \o [n \in 1..Len(SeedStudents) |->
                   SeedUser(student_id(n), UserRole.STUDENT,
                            SeedStudents[n].email, "student123")],
         insegnanti_dettaglio |->
            [t \in 1..Len(SeedTeachers) |->
                [id |-> <<"insegnanti_dettaglio", issued["insegnanti_dettaglio"] + t>>,
                 utente_id |-> teacher_id(t),
                 specializzazione |-> SeedTeachers[t].spec,
                 compenso_orario |-> SeedTeachers[t].compenso]],
         allievi_dettaglio |->
            [n \in 1..Len(SeedStudents) |->
                [id |-> <<"allievi_dettaglio", issued["allievi_dettaglio"] + n>>,
                 utente_id |-> student_id(n),
                 corso_principale |-> SeedStudents[n].corso]],
         pagamenti |->
            [n \in 1..3 |->
                [id |-> <<"pagamenti", issued["pagamenti"] + n>>,
                 utente_id |-> student_id(n),
                 tipo |-> PaymentType.MONTHLY,
                 importo |-> 150,
                 descrizione |-> <<"Quota", "mensile", "Luglio", "2025">>,
                 data_scadenza |-> now + timedelta_days(10 - (n - 1) * 5),
                 stato |-> IF n - 1 < 2 THEN PaymentStatus.PENDING
                           ELSE PaymentStatus.OVERDUE,
                 visibile_utente |-> TRUE,
                 data_creazione |-> now]],
         notifiche |->
            [n \in 1..2 |->
                [id |-> <<"notifiche", issued["notifiche"] + n>>,
                 titolo |-> IF n = 1 THEN "Benvenuti!" ELSE "Concerto di fine anno",
                 tipo |-> "generale",
                 destinatari_ids |-> << >>,
                 attivo |-> TRUE,
                 data_creazione |-> now]]]

\* the counters after seed_database
seed_issued(issued) ==
    [c \in DOMAIN issued |->
        issued[c] + (CASE c = "utenti" -> 1 + Len(SeedTeachers) + Len(SeedStudents)
                       [] c = "insegnanti_dettaglio" -> Len(SeedTeachers)
                       [] c = "allievi_dettaglio" -> Len(SeedStudents)
                       [] c = "pagamenti" -> 3
                       [] c = "notifiche" -> 2
                       [] OTHER -> 0)]

\* POST /seed: no session is asked for
seed_database ==
    LET op == "seed_database"
        existing == Len(utenti)
        docs == seed_documents(uuid)
    IN  IF existing > 3
        THEN /\ risposta' = [op |-> op, request |-> << >>, status_code |-> 200,
                             status |-> "skipped"]
             /\ UNCHANGED <<tz_aware, in_flight, storia, now, uuid, db, tolleranza_richiesta>>
        ELSE /\ uuid' = seed_issued(uuid)
             /\ utenti' = utenti \o docs.utenti
             /\ insegnanti_dettaglio' = insegnanti_dettaglio \o docs.insegnanti_dettaglio
             /\ allievi_dettaglio' = allievi_dettaglio \o docs.allievi_dettaglio
             /\ pagamenti' = pagamenti \o docs.pagamenti
             /\ notifiche' = notifiche \o docs.notifiche
             /\ risposta' = [op |-> op, request |-> << >>, status_code |-> 200,
                             status |-> "seeded"]
             /\ UNCHANGED <<tz_aware, in_flight, storia, now, sessioni, richieste_pagamento, presenze,
                            compensi, accesso_amministrazione, slot_lezioni,
                            tolleranza_richiesta>>

\* the recipients a reminder names
LessonNotifications ==
    {[destinatari |-> {"insegnante"}], [destinatari |-> {"entrambi"}]}

\* the callers of the reminder: the admin, the teacher, a student, nobody
ReminderCallers == {"tok_adm1", "tok_ins1", "tok_all1", NoToken}

SendLessonNotification ==
    /\ uuid["notifiche"] < MaxPromemoria
    /\ \E token \in ReminderCallers, slot_id \in SlotIds,
          notif \in LessonNotifications :
            send_lesson_notification(token, slot_id, notif)

SeedDatabase == seed_database

\* the admin offers the teacher's hour
OfferLessonSlot ==
    \E slot_data \in SlotCreates : create_lesson_slot("tok_adm1", slot_data)

NextRuoli ==
    \/ CreatePayment
    \/ DeleteUser
    \/ OfferLessonSlot
    \/ SendLessonNotification
    \/ SeedDatabase

SpecRuoli == InitDefaultClient /\ [][NextRuoli]_vars

-----------------------------------------------------------------------------
(* The approval of a payment request, write by write: the status update   *)
(* and the insert of the Payment are two awaited calls, and the second    *)
(* may never run (the call raises, the process is stopped)                *)

\* the first write of approve_payment_request
approve_status_update_deferred(rows, request_id) == rows

approve_status_update(rows, request_id) ==
    UpdateOne(rows, request_id,
              [stato |-> PaymentRequestStatus.APPROVED,
               data_approvazione_admin |-> now])

\* PUT /richieste-pagamento/{request_id}/approva, up to the await of insert_one
approve_payment_request_update(token, request_id) ==
    LET op == "approve_payment_request"
        i == FindById(richieste_pagamento, request_id)
        request == [op |-> op, token |-> token, request_id |-> request_id,
                    payment_request |-> IF i = 0 THEN None
                                        ELSE Some(richieste_pagamento[i])]
    IN  IF require_admin(token) # 0 THEN Raise(op, request, require_admin(token))
        ELSE IF i = 0 THEN Raise(op, request, 404)
        ELSE /\ richieste_pagamento' =
                    approve_status_update(richieste_pagamento, request_id)
             /\ Suspend(request)
             /\ UNCHANGED <<tz_aware, storia, now, uuid, utenti, sessioni, pagamenti,
                            notifiche, presenze, compensi, dettagli, slot_lezioni,
                            tolleranza_richiesta>>

\* PUT /richieste-pagamento/{request_id}/approva, from insert_one on
approve_payment_request_insert(i) ==
    LET request == in_flight[i]
        payment_request == request.payment_request[1]
        payment == approve_payment(payment_request, uuid4(uuid, "pagamenti"))
    IN  /\ request.op = "approve_payment_request"
        /\ in_flight' = Resume(i)
        /\ uuid' = Issued(uuid, "pagamenti")
        /\ pagamenti' = Append(pagamenti, payment)
        /\ notifiche' =
               IF "notification_id" \in DOMAIN payment_request
               THEN UpdateOne(notifiche, payment_request.notification_id,
                        [titolo |-> "Pagamento Approvato",
                         messaggio |-> <<"approvato", payment_request.importo,
                                         payment_request.causale>>])
               ELSE notifiche
        /\ storia' = Append(storia, [op |-> request.op,
                                      request_id |-> request.request_id,
                                      payment_id |-> payment.id])
        /\ risposta' = [op |-> request.op, request |-> request, status_code |-> 200,
                        payment_id |-> payment.id]
        /\ UNCHANGED <<tz_aware, now, utenti, sessioni, richieste_pagamento, presenze,
                       compensi, dettagli, slot_lezioni, tolleranza_richiesta>>

\* the awaited call of a suspended request raises, or the process is stopped:
\* the rest of the handler does not run
fail(i) ==
    /\ in_flight' = Resume(i)
    /\ risposta' = [op |-> in_flight[i].op, request |-> in_flight[i],
                    status_code |-> 500]
    /\ UNCHANGED <<tz_aware, storia, now, uuid, db, tolleranza_richiesta>>

\* the admin asks a student for a payment
AskPayment ==
    \E request_data \in PaymentRequestCreates :
        create_payment_request("tok_adm1", request_data)

ApproveUpdate ==
    /\ IssuedByRequests(uuid) + Len(in_flight) < MaxUuid
    /\ Len(in_flight) < MaxInFlight
    /\ \E token \in AdminCallers, request_id \in RequestIds :
            approve_payment_request_update(token, request_id)

ApproveInsert == \E i \in 1..Len(in_flight) : approve_payment_request_insert(i)

ApproveFail == \E i \in 1..Len(in_flight) : fail(i)

NextApprova ==
    \/ AskPayment
    \/ ApproveUpdate
    \/ ApproveInsert
    \/ ApproveFail

SpecApprova == InitDefaultClient /\ [][NextApprova]_vars

-----------------------------------------------------------------------------
(* Lesson slots, request by request: book_lesson_slot, cancel_booking and *)
(* delete_lesson_slot read the slot with find_one and write it with a     *)
(* later awaited call, so other requests may run between the two          *)

\* the update_one of book_lesson_slot: its filter is the id alone
book_update_one_if_available(rows, slot_id, booker_id) ==
    LET i == FindById(rows, slot_id)
    IN  IF i # 0 /\ rows[i].stato = LessonSlotStatus.AVAILABLE
        THEN UpdateOne(rows, slot_id,
                       [stato |-> LessonSlotStatus.BOOKED,
                        allievo_id |-> Some(booker_id),
                        data_prenotazione |-> Some(now)])
        ELSE rows

book_update_one(rows, slot_id, booker_id) ==
    UpdateOne(rows, slot_id,
              [stato |-> LessonSlotStatus.BOOKED,
               allievo_id |-> Some(booker_id),
               data_prenotazione |-> Some(now)])

\* the update_one of cancel_booking
cancel_update_one_stato(rows, slot_id) ==
    UpdateOne(rows, slot_id, [stato |-> LessonSlotStatus.AVAILABLE])

cancel_update_one(rows, slot_id) ==
    UpdateOne(rows, slot_id,
              [stato |-> LessonSlotStatus.AVAILABLE,
               allievo_id |-> None,
               data_prenotazione |-> None])

\* POST /slot-lezioni/{slot_id}/prenota, up to the await of update_one;
\* checked_at remembers how many bookings had completed when the slot was read
book_lesson_slot_check(token, slot_id, booking_data) ==
    LET op == "book_lesson_slot"
        current_user == get_current_user(token)
        i == FindById(slot_lezioni, slot_id)
        as_admin == /\ current_user[1].ruolo = UserRole.ADMIN
                    /\ booking_data.allievo_id # None
        booker_id == IF current_user = None THEN "nessuno"
                     ELSE IF as_admin THEN booking_data.allievo_id[1]
                     ELSE current_user[1].id
        request == [op |-> op, token |-> token, slot_id |-> slot_id,
                    booker_id |-> booker_id, checked_at |-> Len(storia)]
    IN  IF require_auth(token) # 0 THEN Raise(op, request, require_auth(token))
        ELSE IF i = 0 THEN Raise(op, request, 404)
        ELSE IF slot_lezioni[i].stato # LessonSlotStatus.AVAILABLE
        THEN Raise(op, request, 400)
        ELSE IF /\ as_admin
                /\ FindUserWithRole(booking_data.allievo_id[1], UserRole.STUDENT) = 0
        THEN Raise(op, request, 404)
        ELSE IF ~as_admin /\ current_user[1].ruolo # UserRole.STUDENT
        THEN Raise(op, request, 403)
        ELSE /\ Suspend(request)
             /\ UNCHANGED <<tz_aware, storia, now, uuid, db, tolleranza_richiesta>>

\* POST /slot-lezioni/{slot_id}/prenota, from update_one on: the slot is read
\* again for the answer, and the handler breaks on a slot that is gone
book_lesson_slot_write(i) ==
    LET request == in_flight[i]
        updated_slot == FindById(slot_lezioni, request.slot_id)
    IN  /\ request.op = "book_lesson_slot"
        /\ in_flight' = Resume(i)
        /\ slot_lezioni' =
               book_update_one(slot_lezioni, request.slot_id, request.booker_id)
        /\ storia' = IF updated_slot = 0 THEN storia
                     ELSE Append(storia, [op |-> request.op,
                                          slot_id |-> request.slot_id,
                                          booker_id |-> request.booker_id,
                                          checked_at |-> request.checked_at])
        /\ risposta' = [op |-> request.op, request |-> request,
                        status_code |-> IF updated_slot = 0 THEN 500 ELSE 200]
        /\ UNCHANGED <<tz_aware, now, uuid, utenti, sessioni, pagamenti,
                       richieste_pagamento, notifiche, presenze, compensi,
                       dettagli, tolleranza_richiesta>>

\* POST /slot-lezioni/{slot_id}/annulla, up to the await of update_one
cancel_booking_check(token, slot_id) ==
    LET op == "cancel_booking"
        request == [op |-> op, token |-> token, slot_id |-> slot_id]
        current_user == get_current_user(token)
        i == FindById(slot_lezioni, slot_id)
    IN  IF require_auth(token) # 0 THEN Raise(op, request, require_auth(token))
        ELSE IF i = 0 THEN Raise(op, request, 404)
        ELSE IF slot_lezioni[i].stato # LessonSlotStatus.BOOKED
        THEN Raise(op, request, 400)
        ELSE IF /\ current_user[1].ruolo = UserRole.STUDENT
                /\ Get(slot_lezioni[i], "allievo_id", None) # Some(current_user[1].id)
        THEN Raise(op, request, 403)
        ELSE IF current_user[1].ruolo \notin {UserRole.STUDENT, UserRole.ADMIN}
        THEN Raise(op, request, 403)
        ELSE /\ Suspend(request)
             /\ UNCHANGED <<tz_aware, storia, now, uuid, db, tolleranza_richiesta>>

\* POST /slot-lezioni/{slot_id}/annulla, from update_one on: the slot is read
\* again for the answer
cancel_booking_write(i) ==
    LET request == in_flight[i]
        updated_slot == FindById(slot_lezioni, request.slot_id)
    IN  /\ request.op = "cancel_booking"
        /\ in_flight' = Resume(i)
        /\ slot_lezioni' = cancel_update_one(slot_lezioni, request.slot_id)
        /\ risposta' = [op |-> request.op, request |-> request,
                        status_code |-> IF updated_slot = 0 THEN 500 ELSE 200]
        /\ UNCHANGED <<tz_aware, storia, now, uuid, utenti, sessioni, pagamenti,
                       richieste_pagamento, notifiche, presenze, compensi,
                       dettagli, tolleranza_richiesta>>

\* DELETE /slot-lezioni/{slot_id}, up to the await of its write: the branch
\* is chosen from the slot as find_one returned it
delete_lesson_slot_check(token, slot_id) ==
    LET op == "delete_lesson_slot"
        i == FindById(slot_lezioni, slot_id)
        request == [op |-> op, token |-> token, slot_id |-> slot_id,
                    booked |-> IF i = 0 THEN FALSE
                               ELSE Get(slot_lezioni[i], "allievo_id", None) # None]
    IN  IF require_admin(token) # 0 THEN Raise(op, request, require_admin(token))
        ELSE IF i = 0 THEN Raise(op, request, 404)
        ELSE /\ Suspend(request)
             /\ UNCHANGED <<tz_aware, storia, now, uuid, db, tolleranza_richiesta>>

\* DELETE /slot-lezioni/{slot_id}, from update_one or delete_one on
delete_lesson_slot_write(i) ==
    LET request == in_flight[i]
        deleted_count == IF FindById(slot_lezioni, request.slot_id) = 0 THEN 0 ELSE 1
    IN  /\ request.op = "delete_lesson_slot"
        /\ in_flight' = Resume(i)
        /\ slot_lezioni' =
               IF request.booked
               THEN UpdateOne(slot_lezioni, request.slot_id,
                              [stato |-> LessonSlotStatus.CANCELLED])
               ELSE DeleteOne(slot_lezioni, request.slot_id)
        /\ risposta' = [op |-> request.op, request |-> request,
                        status_code |-> IF ~request.booked /\ deleted_count = 0
                                        THEN 404 ELSE 200]
        /\ UNCHANGED <<tz_aware, storia, now, uuid, utenti, sessioni, pagamenti,
                       richieste_pagamento, notifiche, presenze, compensi,
                       dettagli, tolleranza_richiesta>>

\* the bookings that compete: the first student for itself, the admin for
\* the second student
Bookings ==
    {<<"tok_all1", [allievo_id |-> None]>>,
     <<"tok_adm1", [allievo_id |-> Some(Student2)]>>}

\* the bookings in flight and those completed
Booked ==
    Len(storia)
      + Cardinality({i \in 1..Len(in_flight) : in_flight[i].op = "book_lesson_slot"})

\* who cancels: the admin, the first student
CancelCallers == {"tok_adm1", "tok_all1"}

BookCheck ==
    /\ Len(in_flight) < MaxInFlight
    /\ Booked < MaxPrenotazioni
    /\ \E b \in Bookings, slot_id \in SlotIds :
            book_lesson_slot_check(b[1], slot_id, b[2])

BookWrite == \E i \in 1..Len(in_flight) : book_lesson_slot_write(i)

\* one cancellation is in flight at a time, and one deletion
CancelCheck ==
    /\ Len(in_flight) < MaxInFlight
    /\ \A i \in 1..Len(in_flight) : in_flight[i].op # "cancel_booking"
    /\ \E token \in CancelCallers, slot_id \in SlotIds :
            cancel_booking_check(token, slot_id)

CancelWrite == \E i \in 1..Len(in_flight) : cancel_booking_write(i)

DeleteCheck ==
    /\ Len(in_flight) < MaxInFlight
    /\ \A i \in 1..Len(in_flight) : in_flight[i].op # "delete_lesson_slot"
    /\ \E slot_id \in SlotIds : delete_lesson_slot_check("tok_adm1", slot_id)

DeleteWrite == \E i \in 1..Len(in_flight) : delete_lesson_slot_write(i)

\* the admin writes a note on a slot
NoteLessonSlot ==
    \E slot_id \in SlotIds :
        update_lesson_slot("tok_adm1", slot_id,
                           [NoSlotUpdate EXCEPT !.note = Some("sala 2")])

\* the admin offers the teacher's hour from 10:00 when no slot is stored and
\* no request is in flight
OfferHour ==
    /\ slot_lezioni = << >>
    /\ in_flight = << >>
    /\ create_lesson_slot("tok_adm1",
        [insegnante_id |-> Teacher1, strumento |-> "pianoforte",
         data |-> IsoDate("2025-07", 10), ora |-> IsoTime(10, 0), durata |-> 60])

NextPrenota ==
    \/ OfferHour
    \/ BookCheck
    \/ BookWrite
    \/ CancelCheck
    \/ CancelWrite
    \/ DeleteCheck
    \/ DeleteWrite
    \/ NoteLessonSlot

SpecPrenota == InitDefaultClient /\ [][NextPrenota]_vars

-----------------------------------------------------------------------------
(* The monthly generation, await by await: for each student the handler   *)
(* awaits find_one for an existing payment and then awaits insert_one,    *)
(* and other requests may run at each await                               *)

\* the insert_one of create_monthly_payments: no unique index, no filter
monthly_insert_one_unless_existing(rows, payment, student, mese) ==
    IF \E j \in 1..Len(rows) : monthly_existing(rows[j], student, mese)
    THEN rows
    ELSE Append(rows, payment)

monthly_insert_one(rows, payment, student, mese) == Append(rows, payment)

\* POST /automazioni/crea-pagamenti-mensili, up to the loop: the request
\* remembers the students it read, the student it is at (i), the call it is
\* about to await (pc) and its created_count
create_monthly_payments_start(token, body) ==
    LET op == "create_monthly_payments"
        request == [op |-> op, token |-> token, body |-> body,
                    students |-> monthly_students, i |-> 1, pc |-> "find_one",
                    created_count |-> 0]
    IN  IF require_admin(token) # 0 THEN Raise(op, request, require_admin(token))
        ELSE IF monthly_students = << >>
        THEN /\ risposta' = [op |-> op, request |-> request, status_code |-> 200,
                             mese |-> monthly_mese(body), created_count |-> 0]
             /\ UNCHANGED <<tz_aware, in_flight, storia, now, uuid, db,
                            tolleranza_richiesta>>
        ELSE /\ Suspend(request)
             /\ UNCHANGED <<tz_aware, storia, now, uuid, db, tolleranza_richiesta>>

\* POST /automazioni/crea-pagamenti-mensili, one await of the loop
create_monthly_payments_step(k) ==
    LET request == in_flight[k]
        student == request.students[request.i]
        mese == monthly_mese(request.body)
        existing == \E j \in 1..Len(pagamenti) :
                        monthly_existing(pagamenti[j], student, mese)
        payment == monthly_payment(student, request.body, uuid4(uuid, "pagamenti"))
        inserts == request.pc = "insert_one"
        created_count == request.created_count + (IF inserts THEN 1 ELSE 0)
        next == IF request.pc = "find_one" /\ ~existing
                THEN [request EXCEPT !.pc = "insert_one"]
                ELSE [request EXCEPT !.pc = "find_one", !.i = @ + 1,
                                     !.created_count = created_count]
    IN  /\ request.op = "create_monthly_payments"
        /\ IF inserts
           THEN /\ pagamenti' = monthly_insert_one(pagamenti, payment, student, mese)
                /\ uuid' = Issued(uuid, "pagamenti")
           ELSE UNCHANGED <<pagamenti, uuid>>
        /\ IF next.i > Len(request.students)
           THEN /\ in_flight' = Resume(k)
                /\ risposta' = [op |-> request.op, request |-> request,
                                status_code |-> 200, mese |-> mese,
                                created_count |-> created_count]
           ELSE /\ in_flight' = [in_flight EXCEPT ![k] = next]
                /\ risposta' = [op |-> "await", request |-> request, status_code |-> 0]
        /\ UNCHANGED <<tz_aware, storia, now, utenti, sessioni, richieste_pagamento,
                       notifiche, presenze, compensi, dettagli, slot_lezioni,
                       tolleranza_richiesta>>

\* the bodies of the generation requests: the current month with the
\* default description, the next month
GenerationBodies == {<< >>, [mese |-> "2025-08"]}

\* the rows the requests in flight may still insert
MayInsert ==
    LET RECURSIVE Sum(_)
        Sum(k) == IF k = 0 THEN 0 ELSE Len(in_flight[k].students) + Sum(k - 1)
    IN  Sum(Len(in_flight))

MonthlyStart ==
    /\ Len(in_flight) < MaxInFlight
    /\ uuid["pagamenti"] + MayInsert + Len(monthly_students) <= MaxPagamenti
    /\ \E token \in AdminCallers, body \in GenerationBodies :
            create_monthly_payments_start(token, body)

MonthlyStep == \E k \in 1..Len(in_flight) : create_monthly_payments_step(k)

NextMensili ==
    \/ MonthlyStart
    \/ MonthlyStep
    \/ Tick

SpecMensili == InitDefaultClient /\ [][NextMensili]_vars

-----------------------------------------------------------------------------
(* The login of the admin in two steps: the PIN, then Google *)

\* POST /auth/admin/pin: the answer carries a temporary token of five minutes
admin_pin_verify(pin_data) ==
    LET op == "admin_pin_verify"
        request == [email |-> pin_data.email]
        hits == {i \in 1..Len(utenti) :
                    /\ utenti[i].email = lower(pin_data.email)
                    /\ utenti[i].ruolo = UserRole.ADMIN}
        user == utenti[CHOOSE i \in hits : \A j \in hits : i <= j]
        rows == SelectSeq(accesso_amministrazione, LAMBDA r : r.utente_id = user.id)
        expire == now + timedelta_minutes(5)
        temp_token == "jwt." \o user.id \o ".google_pending." \o ToString(expire)
    IN  IF hits = {} THEN Raise(op, request, 401)
        ELSE IF ~Get(user, "attivo", FALSE) THEN Raise(op, request, 401)
        ELSE IF rows = << >> \/ ~Get(rows[1], "pin_attivo", FALSE)
        THEN Raise(op, request, 401)
        ELSE IF ~verify_password(pin_data.pin, Get(rows[1], "pin_hash", ""))
        THEN Raise(op, request, 401)
        ELSE /\ storia' = Append(storia, [op |-> op, user_id |-> user.id,
                                          expire |-> expire])
             /\ risposta' = [op |-> op, request |-> request, status_code |-> 200,
                             temp_token |-> temp_token, user_id |-> user.id]
             /\ UNCHANGED <<tz_aware, in_flight, now, uuid, db, tolleranza_richiesta>>

\* POST /auth/admin/google; auth_response is what the exchange of the
\* session_id answers: None when it fails, the Google account otherwise
admin_google_verify(google_data, auth_response) ==
    LET op == "admin_google_verify"
        request == [email |-> google_data.email,
                    session_id |-> google_data.session_id]
        hits == {i \in 1..Len(utenti) :
                    /\ utenti[i].email = lower(google_data.email)
                    /\ utenti[i].ruolo = UserRole.ADMIN}
        user == utenti[CHOOSE i \in hits : \A j \in hits : i <= j]
        token == create_access_token([sub |-> user.id, ruolo |-> user.ruolo], None)
        session ==
            [id |-> uuid4(uuid, "sessioni"),
             utente_id |-> user.id,
             token_sessione |-> token,
             dispositivo |-> "unknown",
             ip |-> None,
             data_creazione |-> now,
             data_scadenza |-> now + timedelta_days(ACCESS_TOKEN_EXPIRE_DAYS)]
    IN  /\ uuid["sessioni"] < MaxSessioni
        /\ IF hits = {} THEN Raise(op, request, 401)
           ELSE IF auth_response = None THEN Raise(op, request, 500)
           ELSE IF lower(auth_response[1].email) # lower(user.email)
           THEN Raise(op, request, 401)
           ELSE /\ accesso_amministrazione' =
                       [i \in 1..Len(accesso_amministrazione) |->
                           IF accesso_amministrazione[i].utente_id = user.id
                              /\ \A j \in 1..(i - 1) :
                                    accesso_amministrazione[j].utente_id # user.id
                           THEN Set(accesso_amministrazione[i],
                                    [google_id |-> Some(auth_response[1].sub),
                                     ultimo_accesso |-> Some(now)])
                           ELSE accesso_amministrazione[i]]
                /\ uuid' = Issued(uuid, "sessioni")
                /\ sessioni' = Append(sessioni, session)
                /\ utenti' = UpdateOne(utenti, user.id, [ultimo_accesso |-> now])
                /\ risposta' = [op |-> op, request |-> request, status_code |-> 200,
                                user |-> [id |-> user.id, ruolo |-> user.ruolo,
                                          email |-> user.email, attivo |-> user.attivo],
                                token |-> token]
                /\ UNCHANGED <<tz_aware, in_flight, storia, now, pagamenti,
                               richieste_pagamento, notifiche, presenze, compensi,
                               allievi_dettaglio, insegnanti_dettaglio, slot_lezioni,
                               tolleranza_richiesta>>

\* the bodies of the PIN step: the PIN of the admin, a wrong one, a student
AdminPinRequests ==
    {[email |-> "ADM1@MUSICI.IT", pin |-> "1234"],
     [email |-> EmailOf(Admin1), pin |-> "0000"],
     [email |-> EmailOf(Student1), pin |-> "1234"]}

\* the bodies of the Google step
AdminGoogleRequests ==
    {[email |-> EmailOf(Admin1), session_id |-> "sid"],
     [email |-> EmailOf(Student1), session_id |-> "sid"]}

\* what the exchange answers: a failure, the account of the admin, another one
AuthResponses ==
    {None,
     Some([email |-> EmailOf(Admin1), sub |-> "google.adm1"]),
     Some([email |-> "altro@gmail.com", sub |-> "google.altro"])}

AdminPinVerify ==
    /\ Len(storia) < MaxPin
    /\ \E pin_data \in AdminPinRequests : admin_pin_verify(pin_data)

AdminGoogleVerify ==
    \E google_data \in AdminGoogleRequests, auth_response \in AuthResponses :
        admin_google_verify(google_data, auth_response)

NextDueFattori ==
    \/ AdminPinVerify
    \/ AdminGoogleVerify
    \/ Tick

SpecDueFattori == InitDefaultClient /\ [][NextDueFattori]_vars

-----------------------------------------------------------------------------
(* The active flag: the admin disables and enables a user whose sessions  *)
(* are stored                                                             *)

\* the bodies of update_user that write the active flag alone
ActiveUpdates == {[NoUserUpdate EXCEPT !.attivo = Some(a)] : a \in BOOLEAN}

\* the admin disables the first student, or enables it again
SetActiveCheck ==
    /\ Len(in_flight) < MaxInFlight
    /\ \E user_data \in ActiveUpdates :
            update_user_check("tok_adm1", Student1, user_data)

NextDisattiva ==
    \/ SetActiveCheck
    \/ UpdateUserWrite
    \/ Login
    \/ GetMe

SpecDisattiva == InitDefaultClient /\ [][NextDisattiva]_vars

-----------------------------------------------------------------------------
(* The quick action of the admin that generates the monthly payments *)

\* t.strftime("%m-%Y")
strftime_mY(t) == IF t < DateTime("2025-08", 1, 0, 0, 0) THEN "07-2025" ELSE "08-2025"

\* the duplicate guard of generate_monthly_payments: a row whose allievo_id is
\* the student and whose causale is that of the current month
generated_existing(payment, student, current_month) ==
    /\ "allievo_id" \in DOMAIN payment /\ payment["allievo_id"] = student["id"]
    /\ "causale" \in DOMAIN payment
    /\ payment["causale"] = <<"Quota", "mensile", current_month>>

\* the loop of generate_monthly_payments over the students, from position i;
\* the names of the student copied on the row are left out
RECURSIVE generate_monthly_payments_loop(_, _, _)
generate_monthly_payments_loop(students, i, acc) ==
    IF i > Len(students) THEN acc
    ELSE
        LET student == students[i]
            current_month == strftime_mY(utcnow)
            existing == \E j \in 1..Len(acc.pagamenti) :
                            generated_existing(acc.pagamenti[j], student, current_month)
            payment_data ==
                [id |-> uuid4(acc.uuid, "pagamenti"),
                 allievo_id |-> student["id"],
                 importo |-> 100,
                 metodo |-> "bonifico",
                 stato |-> "in_attesa",
                 causale |-> <<"Quota", "mensile", current_month>>,
                 data_creazione |-> utcnow,
                 scadenza |-> utcnow + timedelta_days(10)]
        IN  IF existing THEN generate_monthly_payments_loop(students, i + 1, acc)
            ELSE generate_monthly_payments_loop(students, i + 1,
                    [uuid |-> Issued(acc.uuid, "pagamenti"),
                     pagamenti |-> Append(acc.pagamenti, payment_data),
                     created_count |-> acc.created_count + 1])

\* POST /admin/azioni/genera-pagamenti-mensili
generate_monthly_payments(token) ==
    LET op == "generate_monthly_payments"
        request == [token |-> token]
        out == generate_monthly_payments_loop(monthly_students, 1,
                  [uuid |-> uuid, pagamenti |-> pagamenti, created_count |-> 0])
    IN  /\ Len(out.pagamenti) <= MaxPagamenti
        /\ IF require_admin(token) # 0 THEN Raise(op, request, require_admin(token))
           ELSE /\ uuid' = out.uuid
                /\ pagamenti' = out.pagamenti
                /\ risposta' = [op |-> op, request |-> request, status_code |-> 200,
                                count |-> out.created_count]
                /\ UNCHANGED <<tz_aware, in_flight, storia, now, utenti, sessioni,
                               richieste_pagamento, notifiche, presenze, compensi,
                               dettagli, slot_lezioni, tolleranza_richiesta>>

\* the months create_monthly_payments is asked for, with its default
\* description
CreateMonthlyDefault ==
    \E token \in AdminCallers, body \in GenerationBodies :
        create_monthly_payments(token, body)

GenerateMonthlyPayments == \E token \in AdminCallers : generate_monthly_payments(token)

NextGeneratori ==
    \/ CreateMonthlyDefault
    \/ GenerateMonthlyPayments
    \/ Tick

SpecGeneratori == InitDefaultClient /\ [][NextGeneratori]_vars

-----------------------------------------------------------------------------
(* Notifications: the dispatch by the admin and the reading *)

RecipientType == [ALL |-> "tutti", SPECIFIC |-> "singoli"]

\* the elements of a sequence
Range(seq) == {seq[i] : i \in 1..Len(seq)}

\* the value .sort("data_creazione", -1) orders a document by: a missing field
\* sorts as null, before every date
SortKey(doc) == Get(doc, "data_creazione", -1)

\* .sort("data_creazione", -1): the latest first, ties in the order stored
RECURSIVE SortDescending(_)
SortDescending(docs) ==
    IF Len(docs) = 0 THEN << >>
    ELSE LET first == CHOOSE i \in 1..Len(docs) :
                        /\ \A j \in 1..Len(docs) : SortKey(docs[j]) <= SortKey(docs[i])
                        /\ \A j \in 1..(i - 1) : SortKey(docs[j]) < SortKey(docs[i])
         IN  <<docs[first]>>
             \o SortDescending(SubSeq(docs, 1, first - 1)
                               \o SubSeq(docs, first + 1, Len(docs)))

\* the query of get_notifications applied to one document
notification_query(doc, current_user, attivo_only) ==
    /\ attivo_only => ("attivo" \in DOMAIN doc /\ doc["attivo"] = TRUE)
    /\ current_user["ruolo"] # UserRole.ADMIN
        => /\ "destinatari_ids" \in DOMAIN doc
           /\ \/ Len(doc["destinatari_ids"]) = 0
              \/ current_user["id"] \in Range(doc["destinatari_ids"])

\* GET /notifiche
get_notifications(token, attivo_only) ==
    LET op == "get_notifications"
        request == [token |-> token, attivo_only |-> attivo_only]
        current_user == get_current_user(token)
        found == SelectSeq(notifiche,
                    LAMBDA doc : notification_query(doc, current_user[1], attivo_only))
    IN  IF require_auth(token) # 0 THEN Raise(op, request, require_auth(token))
        ELSE /\ risposta' = [op |-> op, request |-> request, status_code |-> 200,
                             notifications |-> ToList(SortDescending(found), 100)]
             /\ UNCHANGED <<tz_aware, in_flight, storia, now, uuid, db, tolleranza_richiesta>>

\* POST /notifiche
create_notification(token, notif_data) ==
    LET op == "create_notification"
        request == [token |-> token]
        notification ==
            [id |-> uuid4(uuid, "notifiche"),
             titolo |-> notif_data.titolo,
             messaggio |-> notif_data.messaggio,
             tipo |-> notif_data.tipo,
             destinatari_tipo |-> notif_data.destinatari_tipo,
             destinatari_ids |-> notif_data.destinatari_ids,
             filtro_pagamento |-> notif_data.filtro_pagamento,
             attivo |-> TRUE,
             data_creazione |-> now]
    IN  IF require_admin(token) # 0 THEN Raise(op, request, require_admin(token))
        ELSE /\ uuid' = Issued(uuid, "notifiche")
             /\ notifiche' = Append(notifiche, notification)
             /\ risposta' = [op |-> op, request |-> request, status_code |-> 200,
                             id |-> notification.id]
             /\ UNCHANGED <<tz_aware, in_flight, storia, now, utenti, sessioni, pagamenti,
                            richieste_pagamento, presenze, compensi, dettagli,
                            slot_lezioni, tolleranza_richiesta>>

\* list(set([p["utente_id"] for p in payments])): each user once, here in the
\* order of the first payment
RECURSIVE Distinct(_)
Distinct(ids) ==
    IF Len(ids) = 0 THEN << >>
    ELSE LET rest == Distinct(SubSeq(ids, 1, Len(ids) - 1))
         IN  IF ids[Len(ids)] \in Range(rest) THEN rest
             ELSE Append(rest, ids[Len(ids)])

\* POST /automazioni/avvisi-pagamento
create_payment_reminders(token, body) ==
    LET op == "create_payment_reminders"
        request == [token |-> token]
        tipo_avviso == Get(body, "tipo", "in_attesa")
        payments == ToList(SelectSeq(pagamenti,
                        LAMBDA p : "stato" \in DOMAIN p /\ p["stato"] = tipo_avviso), 1000)
        user_ids == Distinct([i \in 1..Len(payments) |-> payments[i]["utente_id"]])
        notification ==
            [id |-> uuid4(uuid, "notifiche"),
             titolo |-> IF tipo_avviso = "in_attesa" THEN "Promemoria pagamento"
                        ELSE "Pagamento scaduto",
             messaggio |-> <<tipo_avviso>>,
             tipo |-> NotificationType.PAYMENT,
             destinatari_tipo |-> RecipientType.SPECIFIC,
             destinatari_ids |-> user_ids,
             filtro_pagamento |-> tipo_avviso,
             attivo |-> TRUE,
             data_creazione |-> now]
    IN  IF require_admin(token) # 0 THEN Raise(op, request, require_admin(token))
        ELSE IF Len(user_ids) = 0
        THEN /\ risposta' = [op |-> op, request |-> request, status_code |-> 200]
             /\ UNCHANGED <<tz_aware, in_flight, storia, now, uuid, db, tolleranza_richiesta>>
        ELSE /\ uuid' = Issued(uuid, "notifiche")
             /\ notifiche' = Append(notifiche, notification)
             /\ risposta' = [op |-> op, request |-> request, status_code |-> 200,
                             notification_id |-> notification.id]
             /\ UNCHANGED <<tz_aware, in_flight, storia, now, utenti, sessioni, pagamenti,
                            richieste_pagamento, presenze, compensi, dettagli,
                            slot_lezioni, tolleranza_richiesta>>

\* the notifications the admin writes: to everybody, to two users
NotificationCreates ==
    {[titolo |-> "Saggio", messaggio |-> <<"saggio">>, tipo |-> "generale",
      destinatari_tipo |-> "tutti", destinatari_ids |-> << >>,
      filtro_pagamento |-> None],
     [titolo |-> "Prova", messaggio |-> <<"prova">>, tipo |-> "generale",
      destinatari_tipo |-> "singoli", destinatari_ids |-> <<Teacher1, Student1>>,
      filtro_pagamento |-> None]}

\* the bodies of the reminder automation
ReminderBodies == {<< >>, [tipo |-> "scaduto"]}

\* the readers: the admin, the teacher, a student, nobody
Readers == {"tok_adm1", "tok_ins1", "tok_all1", NoToken}

CreateNotification ==
    /\ uuid["notifiche"] < MaxNotifiche
    /\ \E token \in AdminCallers, notif_data \in NotificationCreates :
            create_notification(token, notif_data)

CreatePaymentReminders ==
    /\ uuid["notifiche"] < MaxNotifiche
    /\ \E token \in AdminCallers, body \in ReminderBodies :
            create_payment_reminders(token, body)

\* the admin asks the student for a payment
RequestPayment ==
    /\ uuid["notifiche"] < MaxNotifiche
    /\ \E request_data \in PaymentRequestCreates :
            create_payment_request("tok_adm1", request_data)

\* the teacher or the admin sends the reminder of a lesson
RemindLesson ==
    /\ uuid["notifiche"] < MaxNotifiche
    /\ \E token \in {"tok_adm1", "tok_ins1"}, slot_id \in SlotIds :
            send_lesson_notification(token, slot_id, [destinatari |-> {"insegnante"}])

GetNotifications ==
    \E token \in Readers, attivo_only \in BOOLEAN : get_notifications(token, attivo_only)

NextNotifiche ==
    \/ CreateNotification
    \/ EnterPayment
    \/ CreatePaymentReminders
    \/ RequestPayment
    \/ OfferLessonSlot
    \/ RemindLesson
    \/ GetNotifications

SpecNotifiche == InitDefaultClient /\ [][NextNotifiche]_vars

-----------------------------------------------------------------------------
(* Properties of the payment-request workflow *)

\* the stored request a served request names, in the state before it
RequestNamed(r) == richieste_pagamento[FindById(richieste_pagamento, r.request.request_id)]

NamesRequest(r) ==
    /\ "request_id" \in DOMAIN r.request
    /\ FindById(richieste_pagamento, r.request.request_id) # 0

TerminalStates == {PaymentRequestStatus.APPROVED, PaymentRequestStatus.REJECTED}

WorkflowOps == {"confirm_payment_request", "approve_payment_request", "reject_payment_request"}

\* C1: a confirm, approve or reject that reaches a request in a terminal state
\* (approved or rejected), the caller being allowed to make the call, is answered
\* 400 and leaves the status of the request as it was.
C1_TerminalStateIsFinal ==
    [][(/\ risposta'.op \in WorkflowOps
        /\ NamesRequest(risposta')
        /\ RequestNamed(risposta').stato \in TerminalStates
        /\ risposta'.status_code \notin {401, 403})
       => /\ risposta'.status_code = 400
          /\ richieste_pagamento'[FindById(richieste_pagamento, risposta'.request.request_id)].stato
                = RequestNamed(risposta').stato]_vars

\* C2: a successful approve appends exactly one Payment row, which belongs to the
\* owner of the request and carries its amount, type mensile, status pagato and a
\* paid-on date.
C2_ApproveMaterializesOnePayment ==
    [][(risposta'.op = "approve_payment_request" /\ risposta'.status_code = 200)
       => /\ NamesRequest(risposta')
          /\ Len(pagamenti') = Len(pagamenti) + 1
          /\ SubSeq(pagamenti', 1, Len(pagamenti)) = pagamenti
          /\ LET payment == pagamenti'[Len(pagamenti')]
                 payment_request == RequestNamed(risposta')
             IN  /\ payment.id = risposta'.payment_id
                 /\ payment.utente_id = payment_request.utente_id
                 /\ payment.importo = payment_request.importo
                 /\ payment.tipo = "mensile"
                 /\ payment.stato = "pagato"
                 /\ payment.data_pagamento # None]_vars

C2_Witness ==
    /\ risposta.op = "approve_payment_request"
    /\ risposta.status_code = 200
    /\ Len(pagamenti) = 2

\* C3: a request becomes approved only from the state confirmed.
C3_ApprovedOnlyAfterConfirmed ==
    [][\A i \in 1..Len(richieste_pagamento) :
          (/\ richieste_pagamento'[i].stato = PaymentRequestStatus.APPROVED
           /\ richieste_pagamento[i].stato # PaymentRequestStatus.APPROVED)
          => richieste_pagamento[i].stato = PaymentRequestStatus.CONFIRMED]_vars

\* C4: a confirm by an authenticated user who does not own the request is answered
\* 403 and changes nothing in the database; and a request is moved to confirmed
\* only by a confirm of its owner.
C4_ConfirmOnlyByOwner ==
    [][/\ (/\ risposta'.op = "confirm_payment_request"
           /\ NamesRequest(risposta')
           /\ get_current_user(risposta'.request.token) # None
           /\ get_current_user(risposta'.request.token)[1].id
                 # RequestNamed(risposta').utente_id)
          => (risposta'.status_code = 403 /\ UNCHANGED db)
       /\ \A i \in 1..Len(richieste_pagamento) :
            (/\ richieste_pagamento'[i] # richieste_pagamento[i]
             /\ richieste_pagamento'[i].stato = PaymentRequestStatus.CONFIRMED)
            => /\ risposta'.op = "confirm_payment_request"
               /\ get_current_user(risposta'.request.token)
                     = Some(utenti[FindById(utenti, richieste_pagamento[i].utente_id)])]_vars

C4_Witness ==
    /\ risposta.op = "confirm_payment_request"
    /\ risposta.status_code = 403
    /\ risposta.request.token \in {"tok_adm1", "tok_ins1"}

-----------------------------------------------------------------------------
(* Properties of the payment automations *)

IsMonthlyCall(r) == r.op = "create_monthly_payments" /\ r.status_code = 200

IsSweep(r) == r.op = "update_overdue_payments" /\ r.status_code = 200

\* the monthly payments of a user that are due on day 7 of the month
MonthlyRowsOf(rows, utente_id, mese) ==
    {i \in 1..Len(rows) :
        /\ rows[i].utente_id = utente_id
        /\ rows[i].tipo = "mensile"
        /\ rows[i].data_scadenza = DateTime(mese, 7, 23, 59, 59)}

\* C5: a monthly generation that directly follows one for the same month (the
\* users being the same) creates nothing, whatever amount and description the two
\* calls carry, and leaves no user with two monthly payments for that month.
C5_SecondGenerationCreatesNothing ==
    [][(/\ IsMonthlyCall(risposta)
        /\ IsMonthlyCall(risposta')
        /\ risposta'.mese = risposta.mese
        /\ utenti' = utenti)
       => /\ risposta'.created_count = 0
          /\ \A k \in 1..Len(utenti) :
                Cardinality(MonthlyRowsOf(pagamenti', utenti[k].id, risposta'.mese)) <= 1]_vars

\* C6: a monthly generation for a month appends, for every active student without
\* a monthly payment whose description names the month, exactly one payment, with
\* status in_attesa and due on day 7 of the month at 23:59:59, and appends nothing
\* for anybody else; the rows already stored stay as they are.
C6_MonthlyGenerationInserts ==
    [][IsMonthlyCall(risposta')
       => LET mese == risposta'.mese
              added == SubSeq(pagamenti', Len(pagamenti) + 1, Len(pagamenti'))
              Covered(u) == \E j \in 1..Len(pagamenti) :
                                /\ pagamenti[j].utente_id = u.id
                                /\ pagamenti[j].tipo = "mensile"
                                /\ \E w \in 1..Len(pagamenti[j].descrizione) :
                                       pagamenti[j].descrizione[w] = mese
              Owed(u) == u.ruolo = "allievo" /\ u.attivo /\ ~Covered(u)
          IN  /\ Len(pagamenti') >= Len(pagamenti)
              /\ SubSeq(pagamenti', 1, Len(pagamenti)) = pagamenti
              /\ risposta'.created_count = Len(added)
              /\ \A k \in 1..Len(utenti) :
                    Cardinality({j \in 1..Len(added) : added[j].utente_id = utenti[k].id})
                        = IF Owed(utenti[k]) THEN 1 ELSE 0
              /\ \A j \in 1..Len(added) :
                    /\ added[j].stato = "in_attesa"
                    /\ added[j].tipo = "mensile"
                    /\ added[j].data_scadenza = DateTime(mese, 7, 23, 59, 59)
                    /\ \E k \in 1..Len(utenti) : utenti[k].id = added[j].utente_id]_vars

C6_Witness ==
    /\ IsMonthlyCall(risposta)
    /\ risposta.created_count = 1
    /\ Len(pagamenti) = 2
    /\ pagamenti[2].utente_id = Student1
    /\ pagamenti[2].data_scadenza = DateTime("2025-07", 7, 23, 59, 59)

\* the tolerance a stored payment carries, none counting as 0 days
ToleranceDays(payment) ==
    IF "tolleranza_giorni" \in DOMAIN payment THEN payment.tolleranza_giorni ELSE 0

\* asOf > dueDate + toleranceDays, for a pending payment
PastTolerance(payment, asOf) ==
    /\ payment.stato = "in_attesa"
    /\ asOf > payment.data_scadenza + ToleranceDays(payment) * Day

\* a sweep called by an admin: the call passed the gate
IsAdminSweep(r) == r.op = "update_overdue_payments" /\ r.status_code \notin {401, 403}

\* C7: a sweep an admin runs at time asOf succeeds, moves to scaduto exactly the
\* payments that are in_attesa with asOf > due date + tolerance days, leaves every
\* other payment and every other field as it was, and returns the number of
\* payments moved.
C7_SweepTransitionsExactlyPastDue ==
    [][IsAdminSweep(risposta')
       => /\ risposta'.status_code = 200
          /\ Len(pagamenti') = Len(pagamenti)
          /\ \A i \in 1..Len(pagamenti) :
                pagamenti'[i] = IF PastTolerance(pagamenti[i], now)
                                THEN [pagamenti[i] EXCEPT !.stato = "scaduto"]
                                ELSE pagamenti[i]
          /\ risposta'.updated_count
                = Cardinality({i \in 1..Len(pagamenti) : PastTolerance(pagamenti[i], now)})]_vars

\* C8: in the state the sweep of an admin leaves, a second sweep at the same
\* instant succeeds, finds nothing to update and leaves the payments as they are.
C8_SweepIdempotent ==
    IsAdminSweep(risposta)
    => /\ ~overdue_sweep(pagamenti, now).raised
       /\ overdue_sweep(pagamenti, now).updated_count = 0
       /\ overdue_sweep(pagamenti, now).pagamenti = pagamenti

\* C9: a sweep served at asOf does not move to scaduto a pending payment that was
\* created through create_payment with a tolerance of N > 0 days while
\* asOf <= due date + N days.
C9_CreationToleranceIsGrace ==
    [][IsSweep(risposta')
       => \A i \in 1..Len(pagamenti) :
            (/\ pagamenti[i].id \in DOMAIN tolleranza_richiesta
             /\ tolleranza_richiesta[pagamenti[i].id] > 0
             /\ pagamenti[i].stato = "in_attesa"
             /\ now <= pagamenti[i].data_scadenza
                          + tolleranza_richiesta[pagamenti[i].id] * Day)
            => pagamenti'[i].stato # "scaduto"]_vars

-----------------------------------------------------------------------------
(* Properties of the compensation calculation *)

\* the attendance records of a teacher dated within [from_date, to_date]
RecordsInPeriod(r) ==
    {i \in 1..Len(presenze) :
        /\ presenze[i].insegnante_id = r.request.insegnante_id
        /\ presenze[i].data >= fromisoformat(r.request.from_date)
        /\ presenze[i].data <= fromisoformat(r.request.to_date)}

\* the rate of a teacher: the first configured one, 30 when none is configured
RateOf(insegnante_id) ==
    LET rows == {i \in 1..Len(compensi) : compensi[i].insegnante_id = insegnante_id}
    IN  IF rows = {} THEN 30
        ELSE compensi[CHOOSE i \in rows : \A j \in rows : i <= j].quota_per_presenza

\* C10: a compensation calculation for a teacher and a period, asked by a caller
\* allowed to see it, answers with totale_compenso = lezioni_pagate * rate, where
\* lezioni_pagate counts every record of the teacher in the period that is
\* presente or assente_non_giustificato and no assente_giustificato record
\* without a makeup date.
C10_CompensationIsCountTimesRate ==
    (/\ risposta.op = "calculate_teacher_compensation"
     /\ risposta.status_code \notin {401, 403})
    => LET inPeriod == RecordsInPeriod(risposta)
           payable == {i \in inPeriod :
                          presenze[i].stato \in {"presente", "assente_non_giustificato"}}
           unpaid == {i \in inPeriod :
                          /\ presenze[i].stato = "assente_giustificato"
                          /\ presenze[i].recupero_data = None}
       IN  /\ risposta.status_code = 200
           /\ risposta.lezioni_pagate >= Cardinality(payable)
           /\ risposta.lezioni_pagate <= Cardinality(inPeriod) - Cardinality(unpaid)
           /\ risposta.totale_compenso
                 = risposta.lezioni_pagate * RateOf(risposta.request.insegnante_id)

\* the justified absences of a teacher whose makeup date lies within the period asked
MakeupsInPeriod(r) ==
    {i \in 1..Len(presenze) :
        /\ presenze[i].insegnante_id = r.request.insegnante_id
        /\ presenze[i].stato = "assente_giustificato"
        /\ presenze[i].recupero_data # None
        /\ presenze[i].recupero_data[1] >= fromisoformat(r.request.from_date)
        /\ presenze[i].recupero_data[1] <= fromisoformat(r.request.to_date)}

\* C11: a compensation calculation that answers for a period credits as makeups
\* exactly the justified absences of the teacher whose makeup date lies in that
\* period, wherever the absence itself is dated: over disjoint periods each such
\* record is credited once, in the period of its makeup date.
C11_MakeupCreditedInItsPeriod ==
    (/\ risposta.op = "calculate_teacher_compensation"
     /\ risposta.status_code = 200)
    => risposta.dettaglio.recuperi = Cardinality(MakeupsInPeriod(risposta))

-----------------------------------------------------------------------------
(* Properties of the sessions *)

\* the stored sessions a token names
SessionsOf(token) == {i \in 1..Len(sessioni) : sessioni[i].token_sessione = token}

\* the token names no session, or only sessions whose expiry is at or before now
NoLiveSession(token) == \A i \in SessionsOf(token) : sessioni[i].data_scadenza <= now

\* C12: a token that is unknown, or whose session expires at or before the current
\* time, resolves to no user and require_auth answers 401; GET /auth/me with such
\* a token is answered 401, and no lookup changes a stored session.
C12_ExpiredSessionIsNoSession ==
    [][/\ \A t \in SessionTokens :
            NoLiveSession(t) => (get_current_user(t) = None /\ require_auth(t) = 401)
       /\ risposta'.op = "get_me"
            => /\ sessioni' = sessioni
               /\ NoLiveSession(risposta'.request.token) => risposta'.status_code = 401]_vars

C12_Witness ==
    /\ risposta.op = "get_me"
    /\ risposta.status_code = 401
    /\ \E i \in SessionsOf(risposta.request.token) :
            /\ sessioni[i].data_scadenza = now
            /\ sessioni[i].utente_id = Student1

\* C13: a logout with token t leaves no session of t, so that t resolves to no
\* user, removes no session of another token and changes none: every other token
\* resolves to the user it resolved to before, and no user is changed.
C13_LogoutIsTokenScoped ==
    [][risposta'.op = "logout"
       => \E t \in SessionTokens :
            /\ t = risposta'.request.token
            /\ get_current_user(t)' = None
            /\ sessioni' = SelectSeq(sessioni, LAMBDA r : r.token_sessione # t)
            /\ \A t2 \in SessionTokens \ {t} :
                  get_current_user(t2)' = get_current_user(t2)
            /\ utenti' = utenti]_vars

C13_Witness ==
    /\ risposta.op = "logout"
    /\ risposta.request.token = "tok_all1"
    /\ SessionsOf("tok_all1") = {}
    /\ \E i \in 1..Len(sessioni) :
            /\ sessioni[i].utente_id = Student1
            /\ get_current_user(sessioni[i].token_sessione) # None

\* C14: a login answered 200 appends one session of the user who logged in, which
\* carries the token returned, and removes or alters no stored session: every
\* token that resolved to a user before the login resolves to that user after it.
C14_LoginAddsOneSession ==
    [][(risposta'.op = "login" /\ risposta'.status_code = 200)
       => /\ Len(sessioni') = Len(sessioni) + 1
          /\ SubSeq(sessioni', 1, Len(sessioni)) = sessioni
          /\ sessioni'[Len(sessioni')].utente_id = risposta'.user.id
          /\ sessioni'[Len(sessioni')].token_sessione = risposta'.token
          /\ \A t \in SessionTokens :
                get_current_user(t) # None
                => /\ get_current_user(t)' # None
                   /\ get_current_user(t)'[1].id = get_current_user(t)[1].id]_vars

C14_Witness ==
    /\ risposta.op = "login"
    /\ risposta.status_code = 200
    /\ risposta.user.id = Student1
    /\ risposta.token # "tok_all1"
    /\ get_current_user("tok_all1") # None
    /\ get_current_user(risposta.token) # None
    /\ get_current_user(risposta.token)[1].id = Student1

-----------------------------------------------------------------------------
(* Properties of the attendance records *)

\* C16: an update or a delete of a stored attendance record by an authenticated
\* caller who is not an admin, the teacher who created the record included, is
\* answered 403 and changes nothing; and a stored record is changed or removed
\* only by an update or a delete that an admin calls.
C16_OnlyAdminChangesAttendance ==
    [][/\ (/\ risposta'.op \in {"update_attendance", "delete_attendance"}
           /\ FindById(presenze, risposta'.request.attendance_id) # 0
           /\ get_current_user(risposta'.request.token) # None
           /\ get_current_user(risposta'.request.token)[1].ruolo # UserRole.ADMIN)
          => (risposta'.status_code = 403 /\ UNCHANGED db)
       /\ \A i \in 1..Len(presenze) :
            (\A j \in 1..Len(presenze') : presenze'[j] # presenze[i])
            => /\ risposta'.op \in {"update_attendance", "delete_attendance"}
               /\ get_current_user(risposta'.request.token) # None
               /\ get_current_user(risposta'.request.token)[1].ruolo = UserRole.ADMIN]_vars

C16_Witness ==
    /\ risposta.op = "update_attendance"
    /\ risposta.status_code = 403
    /\ risposta.request.token = "tok_ins1"
    /\ FindById(presenze, risposta.request.attendance_id) # 0
    /\ presenze[FindById(presenze, risposta.request.attendance_id)].insegnante_id = Teacher1

-----------------------------------------------------------------------------
(* Properties of the users *)

\* the documents of the collection that reference the user
ReferencingUser(coll, u) ==
    {i \in 1..Len(coll) : coll[i].utente_id = u}

\* the tokens of the sessions stored for the user
TokensOf(rows, u) ==
    {rows[i].token_sessione : i \in ReferencingUser(rows, u)}

\* a deletion of a user that has just succeeded
UserDeleted(r) == r.op = "delete_user" /\ r.status_code = 200

\* C17: after a successful delete_user(u) no session, admin-access or
\* role-detail row references u and no token issued to u resolves to a user,
\* while the attendance and payment rows, those of u included, are all
\* still stored as they were.
C17_DeleteUserCascade ==
    [][ UserDeleted(risposta')
          => /\ \E u \in UserIds :
                   /\ u = risposta'.request.user_id
                   /\ ReferencingUser(sessioni', u) = {}
                   /\ ReferencingUser(accesso_amministrazione', u) = {}
                   /\ ReferencingUser(allievi_dettaglio', u) = {}
                   /\ ReferencingUser(insegnanti_dettaglio', u) = {}
                   /\ FindById(utenti', u) = 0
                   /\ \A t \in TokensOf(sessioni, u) : get_current_user(t)' = None
             /\ presenze' = presenze
             /\ pagamenti' = pagamenti ]_vars

\* a user has been deleted who had a session, a detail row, an attendance
\* record and a payment
C17_Witness ==
    /\ UserDeleted(risposta)
    /\ risposta.request.user_id = Student1
    /\ \E i \in 1..Len(presenze) : presenze[i].allievo_id = Student1
    /\ ReferencingUser(pagamenti, Student1) # {}
    /\ Len(allievi_dettaglio) < Len(InitAllieviDettaglio)

-----------------------------------------------------------------------------
(* Properties of the calendar *)

\* the time ranges [start, start + duration) of two slots overlap
SlotsOverlap(a, b) ==
    /\ a.data < b.data + timedelta_minutes(b.durata)
    /\ b.data < a.data + timedelta_minutes(a.durata)

\* C18: no teacher has two lesson slots, neither of them cancelled, whose
\* time ranges [start, start + duration) overlap.
C18_NoOverlappingSlots ==
    \A i, j \in 1..Len(slot_lezioni) :
        (/\ i < j
         /\ slot_lezioni[i].insegnante_id = slot_lezioni[j].insegnante_id
         /\ slot_lezioni[i].stato # LessonSlotStatus.CANCELLED
         /\ slot_lezioni[j].stato # LessonSlotStatus.CANCELLED)
        => ~SlotsOverlap(slot_lezioni[i], slot_lezioni[j])

-----------------------------------------------------------------------------
(* Properties of the status of a payment *)

\* the changes of status a payment may undergo
OneDirectional ==
    {<<PaymentStatus.PENDING, PaymentStatus.OVERDUE>>,
     <<PaymentStatus.PENDING, PaymentStatus.PAID>>,
     <<PaymentStatus.OVERDUE, PaymentStatus.PAID>>}

\* C19: the status of a payment moves in one direction only: whenever a step
\* changes it, the change is pending -> overdue, pending -> paid or
\* overdue -> paid.
C19_StatusOneDirectional ==
    [][ \A i \in 1..Len(pagamenti), j \in 1..Len(pagamenti') :
            (pagamenti[i].id = pagamenti'[j].id
                /\ pagamenti[i].stato # pagamenti'[j].stato)
            => <<pagamenti[i].stato, pagamenti'[j].stato>> \in OneDirectional ]_vars

\* a call of update_payment or update_payment_status that has just set the
\* status of a stored payment to paid
SetsPaid(r) ==
    /\ r.op \in {"update_payment", "update_payment_status"}
    /\ r.status_code = 200
    /\ r.request.body.stato = PaymentStatus.PAID

\* C20: when update_payment or update_payment_status sets the status of a
\* payment to paid, the paid-on date becomes the current time if the payment
\* was not paid before, and stays as it was if the payment was already paid.
C20_PaidOnStampedOnce ==
    [][ SetsPaid(risposta')
          => \A i \in 1..Len(pagamenti) :
                pagamenti[i].id = risposta'.request.payment_id
                => IF pagamenti[i].stato # PaymentStatus.PAID
                   THEN Get(pagamenti'[i], "data_pagamento", None) = Some(now)
                   ELSE Get(pagamenti'[i], "data_pagamento", None)
                            = Get(pagamenti[i], "data_pagamento", None) ]_vars

-----------------------------------------------------------------------------
(* Properties of the roles *)

\* the operations that create, update or delete a user, a payment or a
\* notification
WritingOps ==
    {"create_payment", "delete_user", "send_lesson_notification", "seed_database"}

\* the token a request carried, NoToken when the route reads none
CallerOf(r) == IF "token" \in DOMAIN r.request THEN r.request.token ELSE NoToken

\* the token resolves to an admin
IsAdmin(token) ==
    /\ get_current_user(token) # None
    /\ get_current_user(token)[1].ruolo = UserRole.ADMIN

\* the records of the users, the payments, the notifications and the
\* compensation rates
Guarded == <<utenti, pagamenti, notifiche, compensi>>

\* C15: an operation that creates, updates or deletes a user, a payment, a
\* notification or a compensation rate, called by anyone but an authenticated
\* admin, answers 401 when no session resolves and 403 otherwise, and leaves
\* those collections as they were.
C15_OnlyAdminWrites ==
    [][ risposta'.op \in WritingOps
          => \E token \in Tokens :
                /\ token = CallerOf(risposta')
                /\ ~IsAdmin(token)
                   => /\ risposta'.status_code =
                            (IF get_current_user(token) = None THEN 401 ELSE 403)
                      /\ UNCHANGED Guarded ]_vars

-----------------------------------------------------------------------------
(* Properties of the users' e-mail addresses *)

\* C21: no two user records share the same lower-cased e-mail address, in
\* every state, whatever the interleaving of the create_user and update_user
\* requests.
C21_EmailsUnique ==
    \A i, j \in 1..Len(utenti) : i < j => utenti[i].email # utenti[j].email

-----------------------------------------------------------------------------
(* Properties of the notifications *)

\* the notification has not been switched off
IsActive(doc) == Get(doc, "attivo", TRUE) = TRUE

\* the users a stored notification is addressed to: the one it names, those
\* it lists, or every active user when it lists none
ResolvedRecipients(doc) ==
    IF "utente_id" \in DOMAIN doc THEN {doc["utente_id"]}
    ELSE IF Len(doc["destinatari_ids"]) > 0 THEN Range(doc["destinatari_ids"])
    ELSE {utenti[i].id : i \in {j \in 1..Len(utenti) : utenti[j].attivo}}

\* C22: get_notifications returns to a user every active notification that
\* a dispatch path has stored and that is addressed to that user: to every
\* active user when it is for all, to the listed users otherwise.
C22_RecipientsReadNotifications ==
    (risposta.op = "get_notifications" /\ risposta.status_code = 200)
        => \A i \in 1..Len(notifiche) :
              (/\ IsActive(notifiche[i])
               /\ get_current_user(risposta.request.token)[1].id
                      \in ResolvedRecipients(notifiche[i]))
              => notifiche[i] \in Range(risposta.notifications)

-----------------------------------------------------------------------------
(* Properties of the approval of a payment request *)

\* the Payment rows stored that an approval of the request has inserted
MaterializedFrom(request_id) ==
    {i \in 1..Len(pagamenti) :
        \E k \in 1..Len(storia) :
            /\ storia[k].op = "approve_payment_request"
            /\ storia[k].request_id = request_id
            /\ storia[k].payment_id = pagamenti[i].id}

\* C27: between completed requests, a payment request has one Payment row
\* materialized from it when its status is approved and none otherwise.
C27_OnePaymentIffApproved ==
    \A i \in 1..Len(richieste_pagamento) :
        Cardinality(MaterializedFrom(richieste_pagamento[i].id))
            = (IF richieste_pagamento[i].stato = PaymentRequestStatus.APPROVED
               THEN 1 ELSE 0)

\* an approval that has stopped between its two writes
ApprovalFailed(r) == r.op = "approve_payment_request" /\ r.status_code = 500

\* C23: the approval is not atomic: when approve stops after its status
\* update and before its insert, the request stays approved and no Payment
\* row is added; a state is reached in which a request is approved and no
\* Payment row materialized from it exists.
C23_ApprovalNotAtomic ==
    [][ ApprovalFailed(risposta')
          => /\ \E request_id \in RequestIds :
                   /\ request_id = risposta'.request.request_id
                   /\ richieste_pagamento'[FindById(richieste_pagamento, request_id)].stato
                          = PaymentRequestStatus.APPROVED
             /\ pagamenti' = pagamenti ]_vars

\* no request is in flight, a request is approved, and no Payment row was
\* materialized from it
C23_Witness ==
    /\ ApprovalFailed(risposta)
    /\ in_flight = << >>
    /\ \E i \in 1..Len(richieste_pagamento) :
          /\ richieste_pagamento[i].id = risposta.request.request_id
          /\ richieste_pagamento[i].stato = PaymentRequestStatus.APPROVED
          /\ MaterializedFrom(richieste_pagamento[i].id) = {}

-----------------------------------------------------------------------------
(* Properties of the booking of lesson slots *)

\* a booking that has just completed
BookingCompleted(r) == r.op = "book_lesson_slot" /\ r.status_code = 200

\* C24: the booking is check-then-act: a booking that passed the check on an
\* available slot completes successfully and writes its own student on the
\* slot whatever was written since the check, so that two bookings by
\* different students for the same available slot both succeed and the later
\* write overwrites the earlier student.
C24_BookingCheckThenAct ==
    [][ BookingCompleted(risposta')
          => \E i \in 1..Len(slot_lezioni') :
                /\ slot_lezioni'[i].id = risposta'.request.slot_id
                /\ slot_lezioni'[i].stato = LessonSlotStatus.BOOKED
                /\ slot_lezioni'[i].allievo_id = Some(risposta'.request.booker_id) ]_vars

\* two bookings of one slot by different students have completed, the second
\* had read the slot before the first one wrote it, and the slot is held by
\* the second student
C24_Witness ==
    \E i, j \in 1..Len(storia) :
        /\ i < j
        /\ storia[i].op = "book_lesson_slot" /\ storia[j].op = "book_lesson_slot"
        /\ storia[i].slot_id = storia[j].slot_id
        /\ storia[i].booker_id # storia[j].booker_id
        /\ storia[j].checked_at < i
        /\ BookingCompleted(risposta)
        /\ risposta.request.booker_id = storia[j].booker_id
        /\ \E k \in 1..Len(slot_lezioni) :
              /\ slot_lezioni[k].id = storia[j].slot_id
              /\ slot_lezioni[k].stato = LessonSlotStatus.BOOKED
              /\ slot_lezioni[k].allievo_id = Some(storia[j].booker_id)

\* C30: in every state reached through any interleaving of book, cancel,
\* update and delete of lesson slots, a booked slot has a student and a
\* booking time, and an available slot has no student.
C30_SlotStateConsistent ==
    \A i \in 1..Len(slot_lezioni) :
        /\ slot_lezioni[i].stato = LessonSlotStatus.BOOKED
             => /\ Get(slot_lezioni[i], "allievo_id", None) # None
                /\ Get(slot_lezioni[i], "data_prenotazione", None) # None
        /\ slot_lezioni[i].stato = LessonSlotStatus.AVAILABLE
             => Get(slot_lezioni[i], "allievo_id", None) = None

\* a slot that was booked is available again after a cancellation, while
\* another request is still in flight
C30_Witness ==
    /\ risposta.op = "cancel_booking" /\ risposta.status_code = 200
    /\ in_flight # << >>
    /\ \E i \in 1..Len(slot_lezioni), j \in 1..Len(storia) :
          /\ slot_lezioni[i].id = risposta.request.slot_id
          /\ storia[j].slot_id = slot_lezioni[i].id
          /\ slot_lezioni[i].stato = LessonSlotStatus.AVAILABLE

-----------------------------------------------------------------------------
(* Properties of the monthly generation under interleaving *)

\* a generation request has just run the insert its own read allowed
MonthlyInserted(r) ==
    /\ r.op \in {"await", "create_monthly_payments"}
    /\ r.request.op = "create_monthly_payments"
    /\ r.request.pc = "insert_one"

\* the pending monthly payments of a student for a month, as the duplicate
\* guard recognizes them
PendingMonthly(student, mese) ==
    {j \in 1..Len(pagamenti) :
        /\ monthly_existing(pagamenti[j], student, mese)
        /\ pagamenti[j].stato = PaymentStatus.PENDING}

\* C25: the duplicate guard of the monthly generation is a read followed by
\* an insert: a request that read "no existing payment" for a student inserts
\* one whatever was inserted since, so that two generation requests for the
\* same month each insert one and the student holds two pending monthly
\* payments for that month.
C25_MonthlyGuardPreRead ==
    [][ MonthlyInserted(risposta')
          => /\ Len(pagamenti') = Len(pagamenti) + 1
             /\ pagamenti'[Len(pagamenti')].utente_id
                    = risposta'.request.students[risposta'.request.i].id
             /\ pagamenti'[Len(pagamenti')].stato = PaymentStatus.PENDING ]_vars

\* a student holds two pending monthly payments for one month, both inserted
\* by generation requests that named the month in the description
C25_Witness ==
    /\ MonthlyInserted(risposta)
    /\ \E u \in 1..Len(utenti), mese \in Mesi :
          Cardinality(PendingMonthly(utenti[u], mese)) = 2

-----------------------------------------------------------------------------
(* Properties of the login of the admin *)

\* the Google step has just issued a session
GoogleIssued(r) == r.op = "admin_google_verify" /\ r.status_code = 200

\* the PIN step succeeded for the user and its temporary token is still valid
PinPending(user_id) ==
    \E j \in 1..Len(storia) :
        /\ storia[j].op = "admin_pin_verify"
        /\ storia[j].user_id = user_id
        /\ storia[j].expire > now

\* C26: the login of the admin is ordered: the Google step issues a session
\* for an admin only if the PIN step succeeded before for the same admin and
\* its temporary token of five minutes is still valid.
C26_GoogleAfterPin ==
    [][ GoogleIssued(risposta')
          => \E u \in 1..Len(utenti) :
                utenti[u].id = risposta'.user.id /\ PinPending(utenti[u].id) ]_vars

-----------------------------------------------------------------------------
(* Properties of the active flag *)

\* the users whose active flag is false
Disabled(rows) == {i \in 1..Len(rows) : ~Get(rows[i], "attivo", FALSE)}

\* no stored session token of a disabled user resolves to a user
DisabledUsersResolveToNone ==
    \A u \in Disabled(utenti), i \in 1..Len(sessioni) :
        sessioni[i].utente_id = utenti[u].id
            => get_current_user(sessioni[i].token_sessione) = None

\* a password login for a disabled user is refused and stores no session
DisabledLoginRefused ==
    \A login_data \in LoginRequests :
        (/\ risposta'.op = "login"
         /\ risposta'.request.email = login_data.email
         /\ \E u \in Disabled(utenti) : utenti[u].email = lower(login_data.email))
            => risposta'.status_code = 401 /\ sessioni' = sessioni

\* C28: disabling a user takes effect at once: while the active flag of a
\* user is false, every session token of the user resolves to no user even
\* if unexpired, and a password login for the user is refused and creates no
\* session.
\* (Every state has a request that follows it, so the state predicate is
\* tested in every reachable state.)
C28_DisabledUserLockedOut ==
    [][DisabledUsersResolveToNone /\ DisabledLoginRefused]_vars

\* the first student, disabled by the admin while its session of startup is
\* unexpired, has just been refused the password login
C28_Witness ==
    /\ risposta.op = "login" /\ risposta.status_code = 401
    /\ risposta.request.email = EmailOf(Student1)
    /\ \E u \in Disabled(utenti) : utenti[u].id = Student1
    /\ \E i \in 1..Len(sessioni) :
          /\ sessioni[i].utente_id = Student1
          /\ ~session_expired(sessioni[i].data_scadenza)

-----------------------------------------------------------------------------
(* Properties of the two monthly generators *)

\* the month "YYYY-MM" as generate_monthly_payments writes it
MonthOfYear(mese) == IF mese = "2025-07" THEN "07-2025" ELSE "08-2025"

\* the monthly payments a student holds for a month, as either generator
\* recognizes its own
MonthlyObligations(student, mese) ==
    {j \in 1..Len(pagamenti) :
        \/ monthly_existing(pagamenti[j], student, mese)
        \/ generated_existing(pagamenti[j], student, MonthOfYear(mese))}

\* C29: for a month, after any sequence of calls to the two monthly
\* generators, each active student holds at most one monthly payment for
\* that month.
C29_OneMonthlyAcrossGenerators ==
    \A i \in 1..Len(monthly_students), mese \in Mesi :
        Cardinality(MonthlyObligations(monthly_students[i], mese)) <= 1

====
